---- MODULE Spec2Model ----
(***************************************************************************)
(* A model of the flo wire protocol codec (flo-protocol/src/client.rs),    *)
(* the single-writer atomic counter (flo-server/src/atomics), the engine's *)
(* connection id allocator and stream registry                             *)
(* (flo-server/src/engine/mod.rs), the outgoing peer connections           *)
(* (flo-server/src/engine/controller/peer_connection), and of the          *)
(* connection handler and the stream engine.  The last two are not         *)
(* among the sources at hand (embedded/mod.rs only constructs a            *)
(* ConnectionHandler); they follow the specification's sections 4.E, 4.F,  *)
(* 5 and 7, which their definitions quote.                                 *)
(*                                                                         *)
(* Numbers on the wire are u16/u32/u64.  TLC's integers are 32 bits wide,  *)
(* so an unsigned number is held as its big-endian base-256 digits without *)
(* leading zeros: 0 is <<>>, 5 is <<5>>, 300 is <<1, 44>>.  The            *)
(* representation is exact for every byte string a frame can carry.        *)
(***************************************************************************)
EXTENDS Integers, Sequences, FiniteSets, TLC

VARIABLES
    pc,         \* codec session: "start", "serialized", "panicked", "sent", "parsed"
    msg,        \* the ProtocolMessage handed to serialize
    sres,       \* what ProtocolMessage::serialize did
    wire,       \* the bytes handed to parse_any
    sent,       \* how the wire bytes were put together
    pres,       \* what parse_any returned
    build,      \* counter: "debug" (overflow checks) or "release" (wrapping)
    stored,     \* counter: the values the AtomicUsize has held, oldest first;
                \*          the last one is its value now
    last_ret,   \* counter: what the writer's last operation did
    loaded,     \* counter: reader -> which of `stored` its last load returned
                \*          (0: it has not loaded yet)
    current_connection_id,  \* engine: EngineRef.current_connection_id
    caller,     \* engine: caller -> its place in next_connection_id
    issued,     \* engine: the ids returned so far, in order of return
    conn,       \* connection handler: open, mode, batch size, markers, cursor
    stream,     \* stream engine: the log, the last counter issued, the commit marker
    pending,    \* produce requests submitted to the stream engine, oldest first
    emitted,    \* the frames the handler's latest step put on the connection
    produce_log,  \* the ProduceEvents received ("in") and the replies to them
                  \*   ("out"), in order
    cursor_log,   \* the marker and cursor messages the handler acted on ("in")
                  \*   and the cursor's frames to the client ("out"), in order
    dials,      \* outgoing connections: what create_outgoing_connection
                \*   spawned, in order, and how each task has ended
    failure_reports,  \* the outgoing_connection_failed calls on the system stream
    handlers,   \* the create_connection_handler calls
    event_streams,  \* registry: EngineRef.event_streams, stream name -> handle
    registry_lock,  \* registry: the thread holding the mutex, 0 when it is free
    lookup,     \* registry: thread -> its place in get_stream / get_default_stream
    lookups_begun,  \* registry: the lookups called so far
    last_result     \* registry: what the lookup that returned last returned

codec_vars   == <<pc, msg, sres, wire, sent, pres>>
counter_vars == <<build, stored, last_ret, loaded>>
engine_vars  == <<current_connection_id, caller, issued>>
handler_vars == <<conn, stream, pending, emitted, produce_log, cursor_log>>
dial_vars    == <<dials, failure_reports, handlers>>
registry_vars == <<event_streams, registry_lock, lookup, lookups_begun, last_result>>
vars == <<codec_vars, counter_vars, engine_vars, handler_vars, dial_vars,
          registry_vars>>

(***************************************************************************)
(* Bounds of the model.                                                    *)
(***************************************************************************)
MaxStrLen   == 2   \* longest namespace, user name, password, description
MaxDataLen  == 2   \* longest event body
MaxVecLen   == 2   \* longest version vector
MaxMembers  == 1   \* most cluster members in a cluster state
MaxExtraLen == 2   \* most bytes following a frame in the read buffer
MaxBuf      == 80  \* largest output buffer handed to serialize
MaxUsize    == 3   \* usize::MAX, scaled down: arithmetic on usize is modulo MaxUsize + 1
MaxWrites   == 2   \* most writer operations on one counter
NumReaders  == 1   \* AtomicCounterReaders of one counter
NumCallers  == 2   \* threads holding a clone of the EngineRef
MaxCalls    == 3   \* most next_connection_id calls
MaxDials    == 2   \* most establish_system_connection calls
MaxLookups  == 2   \* most get_stream / get_default_stream calls
MaxProduces == 3   \* most ProduceEvents on the connection
MaxEvents   == 2   \* most events in the stream's log
MaxBatch    == 2   \* largest batch size the server's policy allows; a client
                   \*   asks for 1 or for this
MaxBudget   == 2   \* largest max_events of a StartConsuming; a client asks
                   \*   for 1 or for this

(***************************************************************************)
(* Unsigned numbers as digit strings.                                      *)
(***************************************************************************)
RECURSIVE Strip(_)
Strip(bs) == IF bs = <<>> THEN <<>>
             ELSE IF Head(bs) = 0 THEN Strip(Tail(bs)) ELSE bs

Num(n) == IF n = 0 THEN <<>>
          ELSE IF n < 256 THEN <<n>>
          ELSE <<n \div 256, n % 256>>

\* A number that is larger than any length the model handles.
IsHuge(v) == Len(v) > 2

ToNat(v) == IF Len(v) = 0 THEN 0
            ELSE IF Len(v) = 1 THEN v[1]
            ELSE v[1] * 256 + v[2]

IsZero(v) == v = <<>>

RECURSIVE Zeros(_)
Zeros(n) == IF n <= 0 THEN <<>> ELSE <<0>> \o Zeros(n - 1)

\* The w big-endian bytes of v; a value wider than w bytes keeps its low
\* w bytes, as an `as u16` / `as u32` cast does.
BeBytes(v, w) == IF Len(v) >= w THEN SubSeq(v, Len(v) - w + 1, Len(v))
                 ELSE Zeros(w - Len(v)) \o v

RECURSIVE Rep(_, _)
Rep(b, n) == IF n <= 0 THEN <<>> ELSE <<b>> \o Rep(b, n - 1)

Drop(s, n) == SubSeq(s, n + 1, Len(s))
Take(s, n) == SubSeq(s, 1, n)

(***************************************************************************)
(* Option<T>.                                                              *)
(***************************************************************************)
None == [some |-> FALSE]
Some(x) == [some |-> TRUE, val |-> x]

(***************************************************************************)
(* Message tags and error kinds.                                           *)
(***************************************************************************)
CLIENT_AUTH == 1
PRODUCE_EVENT == 2
RECEIVE_EVENT == 3
UPDATE_MARKER == 4
START_CONSUMING == 5
AWAITING_EVENTS == 6
PEER_ANNOUNCE == 7
PEER_UPDATE == 8
ACK_HEADER == 9
ERROR_HEADER == 10
CLUSTER_STATE == 11
SET_BATCH_SIZE == 12
NEXT_BATCH == 13
END_OF_BATCH == 14
STOP_CONSUMING == 15
CURSOR_CREATED == 16

ERROR_INVALID_NAMESPACE == 15
ERROR_INVALID_CONSUMER_STATE == 16
ERROR_INVALID_VERSION_VECTOR == 17
ERROR_STORAGE_ENGINE_IO == 18

Ok(x) == [ok |-> TRUE, val |-> x]
Err(x) == [ok |-> FALSE, err |-> x]

\* from_u8 taking an unknown byte for a storage error
ErrorKind_from_u8_lenient(byte) ==
    IF byte = ERROR_INVALID_NAMESPACE THEN Ok("InvalidNamespaceGlob")
    ELSE IF byte = ERROR_INVALID_CONSUMER_STATE THEN Ok("InvalidConsumerState")
    ELSE IF byte = ERROR_INVALID_VERSION_VECTOR THEN Ok("InvalidVersionVector")
    ELSE Ok("StorageEngineError")

ErrorKind_from_u8(byte) ==
    IF byte = ERROR_INVALID_NAMESPACE THEN Ok("InvalidNamespaceGlob")
    ELSE IF byte = ERROR_INVALID_CONSUMER_STATE THEN Ok("InvalidConsumerState")
    ELSE IF byte = ERROR_INVALID_VERSION_VECTOR THEN Ok("InvalidVersionVector")
    ELSE IF byte = ERROR_STORAGE_ENGINE_IO THEN Ok("StorageEngineError")
    ELSE Err(byte)

ErrorKind_u8_value(kind) ==
    CASE kind = "InvalidNamespaceGlob" -> ERROR_INVALID_NAMESPACE
      [] kind = "InvalidConsumerState" -> ERROR_INVALID_CONSUMER_STATE
      [] kind = "InvalidVersionVector" -> ERROR_INVALID_VERSION_VECTOR
      [] kind = "StorageEngineError" -> ERROR_STORAGE_ENGINE_IO

(***************************************************************************)
(* Events.  FloEventId::new(actor, counter); a Timestamp holds the         *)
(* milliseconds since the epoch.                                           *)
(***************************************************************************)
FloEventId_new(actor, counter) == [actor |-> actor, event_counter |-> counter]

from_millis_since_epoch(millis) == [millis |-> millis]
millis_since_epoch(timestamp) == timestamp.millis

(***************************************************************************)
(* std::str::from_utf8: whether a byte string is well-formed UTF-8.        *)
(***************************************************************************)
IsCont(b) == b >= 128 /\ b <= 191

RECURSIVE from_utf8_ok(_)
from_utf8_ok(bs) ==
    IF bs = <<>> THEN TRUE
    ELSE LET b == bs[1]
             n == Len(bs)
         IN  IF b < 128 THEN from_utf8_ok(Drop(bs, 1))
             ELSE IF b >= 194 /\ b <= 223
                  THEN n >= 2 /\ IsCont(bs[2]) /\ from_utf8_ok(Drop(bs, 2))
             ELSE IF b >= 224 /\ b <= 239
                  THEN /\ n >= 3
                       /\ IsCont(bs[2]) /\ IsCont(bs[3])
                       /\ (b = 224 => bs[2] >= 160)
                       /\ (b = 237 => bs[2] <= 159)
                       /\ from_utf8_ok(Drop(bs, 3))
             ELSE IF b >= 240 /\ b <= 244
                  THEN /\ n >= 4
                       /\ IsCont(bs[2]) /\ IsCont(bs[3]) /\ IsCont(bs[4])
                       /\ (b = 240 => bs[2] >= 144)
                       /\ (b = 244 => bs[2] <= 143)
                       /\ from_utf8_ok(Drop(bs, 4))
             ELSE FALSE

(***************************************************************************)
(* nom: IResult and the combinators the parsers are built from.            *)
(***************************************************************************)
Done(rest, out) == [kind |-> "Done", rest |-> rest, out |-> out]
Incomplete == [kind |-> "Incomplete"]
Error == [kind |-> "Error"]

\* chain!: run the next parser on what the previous one left.
Bind(r, F(_, _)) == IF r.kind = "Done" THEN F(r.out, r.rest) ELSE r

\* a tag that takes whatever byte is there
tag_any_byte(i, t) == IF i = <<>> THEN Incomplete ELSE Done(Drop(i, 1), <<t>>)

tag(i, t) == IF i = <<>> THEN Incomplete
             ELSE IF i[1] = t THEN Done(Drop(i, 1), <<t>>)
             ELSE Error

take(i, n) == IF Len(i) < n THEN Incomplete ELSE Done(Drop(i, n), Take(i, n))

\* be_uint failing, not waiting, when the bytes have not all arrived
be_uint_short_is_error(i, w) ==
    IF Len(i) < w THEN Error ELSE Done(Drop(i, w), Strip(Take(i, w)))

be_uint(i, w) == IF Len(i) < w THEN Incomplete
                 ELSE Done(Drop(i, w), Strip(Take(i, w)))
be_u16(i) == be_uint(i, 2)
be_u32(i) == be_uint(i, 4)
be_u64(i) == be_uint(i, 8)

\* length_data!(len): the len bytes that follow the length.
length_data(r) ==
    Bind(r, LAMBDA n, rest:
        IF IsHuge(n) \/ Len(rest) < ToNat(n) THEN Incomplete
        ELSE Done(Drop(rest, ToNat(n)), Take(rest, ToNat(n))))

\* parse_str handing the bytes on unchecked
parse_str_unchecked(i) ==
    Bind(length_data(be_u16(i)), LAMBDA res, rest: Done(rest, res))

parse_str(i) ==
    Bind(length_data(be_u16(i)), LAMBDA res, rest:
        IF from_utf8_ok(res) THEN Done(rest, res) ELSE Error)

parse_string_slice(i) == parse_str(i)

parse_auth(i) ==
    Bind(tag(i, CLIENT_AUTH), LAMBDA t, i1:
    Bind(parse_str(i1), LAMBDA namespace, i2:
    Bind(parse_str(i2), LAMBDA username, i3:
    Bind(parse_str(i3), LAMBDA password, i4:
        Done(i4, [type |-> "ClientAuth", namespace |-> namespace,
                  username |-> username, password |-> password])))))

\* parse_event_id taking an id for absent only when all its bytes are zero
parse_event_id_all_zero(i) ==
    Bind(be_u64(i), LAMBDA counter, i1:
    Bind(be_u16(i1), LAMBDA actor, i2:
        Done(i2, IF ~IsZero(counter) \/ ~IsZero(actor)
                 THEN Some(FloEventId_new(actor, counter))
                 ELSE None)))

parse_event_id(i) ==
    Bind(be_u64(i), LAMBDA counter, i1:
    Bind(be_u16(i1), LAMBDA actor, i2:
        Done(i2, IF ~IsZero(counter)
                 THEN Some(FloEventId_new(actor, counter))
                 ELSE None)))

\* require_event_id letting the null id through
require_event_id_any(id) ==
    Ok(IF id.some THEN id.val ELSE FloEventId_new(Num(0), Num(0)))

require_event_id(id) == IF id.some THEN Ok(id.val)
                        ELSE Err("EventId must not be all zeros")

parse_non_zero_event_id(i) ==
    Bind(parse_event_id(i), LAMBDA id, rest:
        IF require_event_id(id).ok THEN Done(rest, require_event_id(id).val)
        ELSE Error)

\* parse_new_producer_event reading the body too, as for a received event
parse_new_producer_event_with_body(i) ==
    Bind(tag(i, PRODUCE_EVENT), LAMBDA t, i1:
    Bind(parse_str(i1), LAMBDA namespace, i2:
    Bind(parse_event_id(i2), LAMBDA parent_id, i3:
    Bind(be_u32(i3), LAMBDA op_id, i4:
    Bind(length_data(be_u32(i4)), LAMBDA data, i5:
        Done(i5, [type |-> "ProduceEvent", namespace |-> namespace,
                  parent_id |-> parent_id, op_id |-> op_id,
                  data |-> data, capacity |-> Num(Len(data))]))))))

parse_new_producer_event(i) ==
    Bind(tag(i, PRODUCE_EVENT), LAMBDA t, i1:
    Bind(parse_str(i1), LAMBDA namespace, i2:
    Bind(parse_event_id(i2), LAMBDA parent_id, i3:
    Bind(be_u32(i3), LAMBDA op_id, i4:
    Bind(be_u32(i4), LAMBDA data_len, i5:
        Done(i5, [type |-> "ProduceEvent", namespace |-> namespace,
                  parent_id |-> parent_id, op_id |-> op_id,
                  data |-> <<>>, capacity |-> data_len]))))))

parse_timestamp(i) ==
    Bind(be_u64(i), LAMBDA millis, rest:
        Done(rest, from_millis_since_epoch(millis)))

\* parse_receive_event_header stopping after data_len, as for a produce header
parse_receive_event_header_only(i) ==
    Bind(tag(i, RECEIVE_EVENT), LAMBDA t, i1:
    Bind(parse_non_zero_event_id(i1), LAMBDA id, i2:
    Bind(parse_event_id(i2), LAMBDA parent_id, i3:
    Bind(parse_timestamp(i3), LAMBDA timestamp, i4:
    Bind(parse_str(i4), LAMBDA namespace, i5:
    Bind(be_u32(i5), LAMBDA data_len, i6:
        Done(i6, [type |-> "ReceiveEvent", repr |-> "Owned",
                  event |-> [id |-> id, parent_id |-> parent_id,
                             namespace |-> namespace,
                             timestamp |-> timestamp, data |-> <<>>]])))))))

parse_receive_event_header(i) ==
    Bind(tag(i, RECEIVE_EVENT), LAMBDA t, i1:
    Bind(parse_non_zero_event_id(i1), LAMBDA id, i2:
    Bind(parse_event_id(i2), LAMBDA parent_id, i3:
    Bind(parse_timestamp(i3), LAMBDA timestamp, i4:
    Bind(parse_str(i4), LAMBDA namespace, i5:
    Bind(length_data(be_u32(i5)), LAMBDA data, i6:
        Done(i6, [type |-> "ReceiveEvent", repr |-> "Owned",
                  event |-> [id |-> id, parent_id |-> parent_id,
                             namespace |-> namespace,
                             timestamp |-> timestamp, data |-> data]])))))))

parse_event_ack(i) ==
    Bind(tag(i, ACK_HEADER), LAMBDA t, i1:
    Bind(be_u32(i1), LAMBDA op_id, i2:
    Bind(be_u64(i2), LAMBDA counter, i3:
    Bind(be_u16(i3), LAMBDA actor_id, i4:
        Done(i4, [type |-> "AckEvent", op_id |-> op_id,
                  event_id |-> FloEventId_new(actor_id, counter)])))))

\* parse_update_marker reading the actor before the counter
parse_update_marker_actor_first(i) ==
    Bind(tag(i, UPDATE_MARKER), LAMBDA t, i1:
    Bind(be_u16(i1), LAMBDA actor, i2:
    Bind(be_u64(i2), LAMBDA counter, i3:
        Done(i3, [type |-> "UpdateMarker",
                  id |-> FloEventId_new(actor, counter)]))))

parse_update_marker(i) ==
    Bind(tag(i, UPDATE_MARKER), LAMBDA t, i1:
    Bind(be_u64(i1), LAMBDA counter, i2:
    Bind(be_u16(i2), LAMBDA actor, i3:
        Done(i3, [type |-> "UpdateMarker",
                  id |-> FloEventId_new(actor, counter)]))))

parse_start_consuming(i) ==
    Bind(tag(i, START_CONSUMING), LAMBDA t, i1:
    Bind(be_u32(i1), LAMBDA op_id, i2:
    Bind(parse_str(i2), LAMBDA namespace, i3:
    Bind(be_u64(i3), LAMBDA count, i4:
        Done(i4, [type |-> "StartConsuming", op_id |-> op_id,
                  namespace |-> namespace, max_events |-> count])))))

(***************************************************************************)
(* SocketAddr: Display writes "a.b.c.d:port"; FromStr accepts exactly the  *)
(* text of an address.  The addresses of the model are KnownAddrs.         *)
(***************************************************************************)
RECURSIVE Dec(_)
Dec(n) == IF n < 10 THEN <<48 + n>> ELSE Dec(n \div 10) \o <<48 + (n % 10)>>

SocketAddr_display(addr) ==
    Dec(addr.ip[1]) \o <<46>> \o Dec(addr.ip[2]) \o <<46>> \o
    Dec(addr.ip[3]) \o <<46>> \o Dec(addr.ip[4]) \o <<58>> \o Dec(addr.port)

KnownAddrs == {[ip |-> <<0, 0, 0, 0>>, port |-> 4], [ip |-> <<7, 8, 9, 10>>, port |-> 3]}

to_socket_addr(input) ==
    IF \E a \in KnownAddrs : SocketAddr_display(a) = input
    THEN Ok(CHOOSE a \in KnownAddrs : SocketAddr_display(a) = input)
    ELSE Err("AddrParseError")

parse_socket_addr(i) ==
    Bind(parse_string_slice(i), LAMBDA text, rest:
        IF to_socket_addr(text).ok THEN Done(rest, to_socket_addr(text).val)
        ELSE Error)

to_bool(byte_slice) == byte_slice = <<1>>

parse_cluster_member_status(i) ==
    Bind(be_u16(i), LAMBDA actor_id, i1:
    Bind(parse_socket_addr(i1), LAMBDA address, i2:
    Bind(take(i2, 1), LAMBDA connected, i3:
        Done(i3, [addr |-> address, actor_id |-> actor_id,
                  connected |-> to_bool(connected)]))))

\* count!(parse_non_zero_event_id, n) and count!(parse_cluster_member_status, n):
\* n items one after the other; an item that fails fails the whole.
RECURSIVE count_event_ids(_, _, _)
count_event_ids(i, n, acc) ==
    IF n = 0 THEN Done(i, acc)
    ELSE LET r == parse_non_zero_event_id(i)
         IN  IF r.kind = "Done"
             THEN count_event_ids(r.rest, n - 1, Append(acc, r.out))
             ELSE r

RECURSIVE count_members(_, _, _)
count_members(i, n, acc) ==
    IF n = 0 THEN Done(i, acc)
    ELSE LET r == parse_cluster_member_status(i)
         IN  IF r.kind = "Done"
             THEN count_members(r.rest, n - 1, Append(acc, r.out))
             ELSE r

parse_version_vec(i) ==
    Bind(be_u16(i), LAMBDA n, rest: count_event_ids(rest, ToNat(n), <<>>))

parse_cluster_state(i) ==
    Bind(be_u16(i), LAMBDA actor_id, i1:
    Bind(be_u16(i1), LAMBDA actor_port, i2:
    Bind(parse_version_vec(i2), LAMBDA version_vec, i3:
    Bind(be_u16(i3), LAMBDA n, i4:
    Bind(count_members(i4, ToNat(n), <<>>), LAMBDA members, i5:
        Done(i5, [actor_id |-> actor_id, actor_port |-> actor_port,
                  version_vector |-> version_vec,
                  other_members |-> members]))))))

parse_peer_announce(i) ==
    Bind(tag(i, PEER_ANNOUNCE), LAMBDA t, i1:
    Bind(parse_cluster_state(i1), LAMBDA state, i2:
        Done(i2, [type |-> "PeerAnnounce", state |-> state])))

parse_peer_update(i) ==
    Bind(tag(i, PEER_UPDATE), LAMBDA t, i1:
    Bind(parse_cluster_state(i1), LAMBDA state, i2:
        Done(i2, [type |-> "PeerUpdate", state |-> state])))

parse_error_message(i) ==
    Bind(tag(i, ERROR_HEADER), LAMBDA t, i1:
    Bind(be_u32(i1), LAMBDA op_id, i2:
    Bind(take(i2, 1), LAMBDA res, i3:
        IF ~ErrorKind_from_u8(res[1]).ok THEN Error
        ELSE Bind(parse_str(i3), LAMBDA description, i4:
            Done(i4, [type |-> "Error", op_id |-> op_id,
                      kind |-> ErrorKind_from_u8(res[1]).val,
                      description |-> description])))))

parse_awaiting_events(i) ==
    Bind(tag(i, AWAITING_EVENTS), LAMBDA t, i1: Done(i1, [type |-> "AwaitingEvents"]))

parse_set_batch_size(i) ==
    Bind(tag(i, SET_BATCH_SIZE), LAMBDA t, i1:
    Bind(be_u32(i1), LAMBDA batch_size, i2:
        Done(i2, [type |-> "SetBatchSize", batch_size |-> batch_size])))

parse_next_batch(i) ==
    Bind(tag(i, NEXT_BATCH), LAMBDA t, i1: Done(i1, [type |-> "NextBatch"]))

parse_end_of_batch(i) ==
    Bind(tag(i, END_OF_BATCH), LAMBDA t, i1: Done(i1, [type |-> "EndOfBatch"]))

parse_stop_consuming(i) ==
    Bind(tag(i, STOP_CONSUMING), LAMBDA t, i1: Done(i1, [type |-> "StopConsuming"]))

parse_cursor_created(i) ==
    Bind(tag(i, CURSOR_CREATED), LAMBDA t, i1:
    Bind(be_u32(i1), LAMBDA op_id, i2:
    Bind(be_u32(i2), LAMBDA batch_size, i3:
        Done(i3, [type |-> "CursorCreated", op_id |-> op_id,
                  batch_size |-> batch_size]))))

\* alt!: the first alternative that does not fail decides; Incomplete decides too.
Alt(r, next) == IF r.kind = "Error" THEN next ELSE r

parse_any(i) ==
    Alt(parse_event_ack(i),
    Alt(parse_receive_event_header(i),
    Alt(parse_peer_update(i),
    Alt(parse_peer_announce(i),
    Alt(parse_update_marker(i),
    Alt(parse_start_consuming(i),
    Alt(parse_auth(i),
    Alt(parse_error_message(i),
    Alt(parse_awaiting_events(i),
    Alt(parse_new_producer_event(i),
    Alt(parse_set_batch_size(i),
    Alt(parse_next_batch(i),
    Alt(parse_end_of_batch(i),
    Alt(parse_stop_consuming(i),
        parse_cursor_created(i)))))))))))))))

(***************************************************************************)
(* Serializer: a cursor over the caller's buffer.  Each write appends at   *)
(* the cursor; a write past the end of the buffer panics (the methods      *)
(* return Self, finish returns usize: there is no error value to return).  *)
(***************************************************************************)
Serializer_new(cap) == [out |-> <<>>, cap |-> cap, panicked |-> FALSE]

write_bytes(ser, bytes) ==
    IF ser.panicked THEN ser
    ELSE IF Len(ser.out) + Len(bytes) > ser.cap THEN [ser EXCEPT !.panicked = TRUE]
    ELSE [ser EXCEPT !.out = @ \o bytes]

write_u8(ser, byte) == write_bytes(ser, <<byte>>)
write_u16(ser, n) == write_bytes(ser, BeBytes(n, 2))
write_u32(ser, n) == write_bytes(ser, BeBytes(n, 4))
write_u64(ser, n) == write_bytes(ser, BeBytes(n, 8))
write_bool(ser, b) == write_u8(ser, IF b THEN 1 ELSE 0)
write_string(ser, string) == write_bytes(write_u16(ser, Num(Len(string))), string)

Panic(cap) == [kind |-> "panic", cap |-> cap]
Written(bytes) == [kind |-> "ok", n |-> Len(bytes), buf |-> bytes]

finish(ser) == IF ser.panicked THEN Panic(ser.cap) ELSE Written(ser.out)

(***************************************************************************)
(* RecvEvent: the FloEvent accessors answer from the event, owned or       *)
(* shared.                                                                 *)
(***************************************************************************)
RecvEvent_id(e) == e.event.id
RecvEvent_timestamp(e) == e.event.timestamp
RecvEvent_parent_id(e) == e.event.parent_id
RecvEvent_namespace(e) == e.event.namespace
\* data_len answering 0 for a shared event
RecvEvent_data_len_shared_empty(e) ==
    IF e.repr = "Ref" THEN Num(0) ELSE Num(Len(e.event.data))

RecvEvent_data_len(e) == Num(Len(e.event.data))
RecvEvent_data(e) == e.event.data
RecvEvent_into_owned(e) == e.event
RecvEvent_to_owned(e) == e.event

(***************************************************************************)
(* The serializers.                                                        *)
(***************************************************************************)
serialize_new_produce_header(header, cap) ==
    LET counter == IF header.parent_id.some
                   THEN header.parent_id.val.event_counter ELSE Num(0)
        actor   == IF header.parent_id.some
                   THEN header.parent_id.val.actor ELSE Num(0)
    IN  finish(write_u32(write_u32(write_u16(write_u64(write_string(
            write_u8(Serializer_new(cap), PRODUCE_EVENT),
            header.namespace), counter), actor), header.op_id),
            Num(Len(header.data))))

serialize_event_ack(ack, cap) ==
    finish(write_u16(write_u64(write_u32(
        write_u8(Serializer_new(cap), ACK_HEADER),
        ack.op_id), ack.event_id.event_counter), ack.event_id.actor))

serialize_error_message(err, cap) ==
    finish(write_string(write_u8(write_u32(
        write_u8(Serializer_new(cap), ERROR_HEADER),
        err.op_id), ErrorKind_u8_value(err.kind)), err.description))

RECURSIVE write_version_vector(_, _)
write_version_vector(ser, ids) ==
    IF ids = <<>> THEN ser
    ELSE write_version_vector(
            write_u16(write_u64(ser, Head(ids).event_counter), Head(ids).actor),
            Tail(ids))

RECURSIVE write_members(_, _)
write_members(ser, members) ==
    IF members = <<>> THEN ser
    ELSE write_members(
            write_bool(write_string(write_u16(ser, Head(members).actor_id),
                                    SocketAddr_display(Head(members).addr)),
                       Head(members).connected),
            Tail(members))

serialize_cluster_state(header, state, cap) ==
    finish(write_members(
        write_u16(
            write_version_vector(
                write_u16(write_u16(write_u16(
                    write_u8(Serializer_new(cap), header),
                    state.actor_id), state.actor_port),
                    Num(Len(state.version_vector))),
                state.version_vector),
            Num(Len(state.other_members))),
        state.other_members))

serialize_receive_event_header(event, cap) ==
    LET parent == RecvEvent_parent_id(event)
    IN  finish(write_u32(write_string(write_u64(write_u16(write_u64(
            write_u16(write_u64(
                write_u8(Serializer_new(cap), RECEIVE_EVENT),
                RecvEvent_id(event).event_counter),
                RecvEvent_id(event).actor),
            IF parent.some THEN parent.val.event_counter ELSE Num(0)),
            IF parent.some THEN parent.val.actor ELSE Num(0)),
            millis_since_epoch(RecvEvent_timestamp(event))),
            RecvEvent_namespace(event)),
            RecvEvent_data_len(event)))

\* buf[0] = tag; 1
index_write(tagbyte, cap) == IF cap < 1 THEN Panic(cap) ELSE Written(<<tagbyte>>)

serialize(m, cap) ==
    CASE m.type = "ReceiveEvent" -> serialize_receive_event_header(m, cap)
      [] m.type = "CursorCreated" ->
            finish(write_u32(write_u32(
                write_u8(Serializer_new(cap), CURSOR_CREATED),
                m.op_id), m.batch_size))
      [] m.type = "AwaitingEvents" ->
            finish(write_u8(Serializer_new(cap), AWAITING_EVENTS))
      [] m.type = "StopConsuming" ->
            finish(write_u8(Serializer_new(cap), STOP_CONSUMING))
      [] m.type = "ProduceEvent" -> serialize_new_produce_header(m, cap)
      [] m.type = "StartConsuming" ->
            finish(write_u64(write_string(write_u32(
                write_u8(Serializer_new(cap), START_CONSUMING),
                m.op_id), m.namespace), m.max_events))
      [] m.type = "UpdateMarker" ->
            finish(write_u16(write_u64(
                write_u8(Serializer_new(cap), UPDATE_MARKER),
                m.id.event_counter), m.id.actor))
      [] m.type = "ClientAuth" ->
            finish(write_string(write_string(write_string(
                write_u8(Serializer_new(cap), CLIENT_AUTH),
                m.namespace), m.username), m.password))
      [] m.type = "PeerUpdate" -> serialize_cluster_state(PEER_UPDATE, m.state, cap)
      [] m.type = "PeerAnnounce" -> serialize_cluster_state(PEER_ANNOUNCE, m.state, cap)
      [] m.type = "AckEvent" -> serialize_event_ack(m, cap)
      [] m.type = "Error" -> serialize_error_message(m, cap)
      [] m.type = "SetBatchSize" ->
            finish(write_u32(write_u8(Serializer_new(cap), SET_BATCH_SIZE),
                             m.batch_size))
      [] m.type = "NextBatch" -> index_write(NEXT_BATCH, cap)
      [] m.type = "EndOfBatch" -> index_write(END_OF_BATCH, cap)

get_body(m) ==
    CASE m.type = "ProduceEvent" -> Some(m.data)
      [] m.type = "ReceiveEvent" -> Some(m.event.data)
      [] OTHER -> None

\* #[derive(PartialEq)] on ProtocolMessage: a Vec's capacity is not compared.
ProtocolMessage_eq(a, b) ==
    IF a.type = "ProduceEvent" /\ b.type = "ProduceEvent"
    THEN /\ a.op_id = b.op_id
         /\ a.namespace = b.namespace
         /\ a.parent_id = b.parent_id
         /\ a.data = b.data
    ELSE a = b

(***************************************************************************)
(* The messages, buffers and bytes of the model.                           *)
(***************************************************************************)
SeqsUpTo(S, n) == UNION {[1..k -> S] : k \in 0..n}

\* "", "/", "//", ... and one two-byte character
Strs == {Rep(47, n) : n \in 0..MaxStrLen} \cup {<<195, 169>>}
Names == {<<>>, <<117>>}
Datas == {Rep(9, n) : n \in 0..MaxDataLen}

IdA == FloEventId_new(Num(1), Num(1))
IdB == FloEventId_new(Num(2), Num(1))
IdZero == FloEventId_new(Num(1), Num(0))
IdWide == FloEventId_new(Num(300), Num(456))

ParentIds == {None, Some(IdA), Some(FloEventId_new(Num(2), Num(0)))}

Members == {[addr |-> [ip |-> <<0, 0, 0, 0>>, port |-> 4], actor_id |-> Num(6),
             connected |-> TRUE],
            [addr |-> [ip |-> <<7, 8, 9, 10>>, port |-> 3], actor_id |-> Num(3),
             connected |-> FALSE]}

ClusterStates ==
    {[actor_id |-> Num(5), actor_port |-> Num(5555), version_vector |-> vv,
      other_members |-> ms] :
        vv \in SeqsUpTo({IdA, IdB, IdZero}, MaxVecLen),
        ms \in SeqsUpTo(Members, MaxMembers)}

OwnedFloEvents ==
    {[id |-> id, parent_id |-> parent, namespace |-> ns,
      timestamp |-> from_millis_since_epoch(Num(99)), data |-> data] :
        id \in {IdA, IdZero}, parent \in ParentIds, ns \in Strs, data \in Datas}

Messages ==
    {[type |-> "ProduceEvent", op_id |-> Num(9), namespace |-> ns,
      parent_id |-> parent, data |-> data, capacity |-> Num(Len(data))] :
        ns \in Strs, parent \in ParentIds, data \in Datas}
    \cup {[type |-> "ReceiveEvent", repr |-> repr, event |-> e] :
        repr \in {"Owned", "Ref"}, e \in OwnedFloEvents}
    \cup {[type |-> "AckEvent", op_id |-> Num(2345), event_id |-> id] :
        id \in {IdA, IdWide, IdZero}}
    \cup {[type |-> "UpdateMarker", id |-> id] : id \in {IdA, IdWide, IdZero}}
    \cup {[type |-> "StartConsuming", op_id |-> Num(123), namespace |-> ns,
           max_events |-> Num(8766)] : ns \in Strs}
    \cup {[type |-> "CursorCreated", op_id |-> Num(543), batch_size |-> Num(7891)]}
    \cup {[type |-> t] : t \in {"StopConsuming", "NextBatch", "EndOfBatch",
                                "AwaitingEvents"}}
    \cup {[type |-> "SetBatchSize", batch_size |-> n] : n \in {Num(0), Num(1234)}}
    \cup {[type |-> t, state |-> st] :
        t \in {"PeerAnnounce", "PeerUpdate"}, st \in ClusterStates}
    \cup {[type |-> "ClientAuth", namespace |-> ns, username |-> u, password |-> pw] :
        ns \in Strs, u \in Names, pw \in Names}
    \cup {[type |-> "Error", op_id |-> Num(12345), kind |-> k, description |-> d] :
        k \in {"InvalidNamespaceGlob", "InvalidConsumerState",
               "InvalidVersionVector", "StorageEngineError"},
        d \in {<<>>, <<195, 169>>}}

Extras == {Take(<<4, 3, 2, 1>>, n) : n \in 0..MaxExtraLen}

\* Bytes written over a byte of a frame: no tag, the reserved tag, a tag above
\* the last one, and a byte that never occurs in UTF-8.
CorruptBytes == {0, CLUSTER_STATE, CURSOR_CREATED + 1, 192}

NoMessage == [type |-> "none"]
NotSent == [body |-> FALSE, extra |-> <<>>, cut |-> FALSE, corrupt |-> FALSE]

(***************************************************************************)
(* The codec session: a message is serialized into a buffer, the bytes     *)
(* travel (whole, with the body, followed by other bytes, cut short or     *)
(* damaged) and are handed to parse_any.                                   *)
(***************************************************************************)
CodecInit ==
    /\ pc = "start"
    /\ msg = NoMessage
    /\ sres = [kind |-> "none"]
    /\ wire = <<>>
    /\ sent = NotSent
    /\ pres = [kind |-> "none"]

Serialize(m, cap) ==
    LET r == serialize(m, cap)
    IN  /\ msg' = m
        /\ sres' = r
        /\ pc' = IF r.kind = "ok" THEN "serialized" ELSE "panicked"
        /\ UNCHANGED <<wire, sent, pres>>

SerializeMessage ==
    /\ pc = "start"
    /\ \E m \in Messages, cap \in 0..MaxBuf : Serialize(m, cap)

\* The caller writes the header, then the body when it has one to send, and
\* whatever it sends next follows in the reader's buffer.
Send(with_body, extra) ==
    /\ pc = "serialized"
    /\ with_body => get_body(msg).some
    /\ wire' = sres.buf \o (IF with_body THEN get_body(msg).val ELSE <<>>) \o extra
    /\ sent' = [NotSent EXCEPT !.body = with_body, !.extra = extra]
    /\ pc' = "sent"
    /\ UNCHANGED <<msg, sres, pres>>

SendBytes ==
    /\ pc = "serialized"
    /\ \E with_body \in BOOLEAN, extra \in Extras : Send(with_body, extra)

Untouched == pc = "sent" /\ sent.extra = <<>> /\ ~sent.cut /\ ~sent.corrupt

\* Only the first n bytes have arrived.
Truncate ==
    /\ Untouched
    /\ \E n \in 0..(Len(wire) - 1) :
          /\ wire' = Take(wire, n)
          /\ sent' = [sent EXCEPT !.cut = TRUE]
    /\ UNCHANGED <<pc, msg, sres, pres>>

\* The bytes are not what a serializer wrote.
Corrupt ==
    /\ Untouched
    /\ \E k \in 1..Len(wire), b \in CorruptBytes :
          /\ wire[k] # b
          /\ wire' = [wire EXCEPT ![k] = b]
          /\ sent' = [sent EXCEPT !.corrupt = TRUE]
    /\ UNCHANGED <<pc, msg, sres, pres>>

Parse ==
    /\ pc = "sent"
    /\ pres' = parse_any(wire)
    /\ pc' = "parsed"
    /\ UNCHANGED <<msg, sres, wire, sent>>

(***************************************************************************)
(* AtomicCounterWriter / AtomicCounterReader.  The writer is one reference *)
(* (&mut self), so its operations do not interleave with each other;       *)
(* readers load concurrently, between any two of them.                     *)
(***************************************************************************)
Readers == 1..NumReaders

Wrap(n) == n % (MaxUsize + 1)

CounterValue == stored[Len(stored)]

LoadedValue(r) == stored[loaded[r]]

CounterInit ==
    /\ build \in {"debug", "release"}
    /\ \E v \in 0..MaxUsize : stored = <<v>>       \* with_value(v); zero() is v = 0
    /\ last_ret = [op |-> "none"]
    /\ loaded = [r \in Readers |-> 0]

\* AtomicUsize::fetch_add: wraps around on overflow, returns the old value.
atomic_fetch_add(old, amount) == Wrap(old + amount)

\* old + amount on usize: panics with overflow checks, wraps without.
usize_add(a, b) ==
    IF a + b > MaxUsize /\ build = "debug" THEN [kind |-> "panic"]
    ELSE [kind |-> "ok", val |-> Wrap(a + b)]

fetch_add(amount) ==
    /\ Len(stored) <= MaxWrites
    /\ stored' = Append(stored, atomic_fetch_add(CounterValue, amount))
    /\ last_ret' = [op |-> "fetch_add", old |-> CounterValue, amount |-> amount,
                    ret |-> [kind |-> "ok", val |-> CounterValue]]
    /\ UNCHANGED <<build, loaded>>

increment_and_get_relaxed(amount) ==
    /\ Len(stored) <= MaxWrites
    /\ stored' = Append(stored, atomic_fetch_add(CounterValue, amount))
    /\ last_ret' = [op |-> "increment_and_get_relaxed", old |-> CounterValue,
                    amount |-> amount, ret |-> usize_add(CounterValue, amount)]
    /\ UNCHANGED <<build, loaded>>

\* a store that does not compare
set_if_greater_stores_always(new_value, current) == new_value >= 0

set_if_greater_stores(new_value, current) == new_value > current

set_if_greater(new_value) ==
    /\ Len(stored) <= MaxWrites
    /\ stored' = IF set_if_greater_stores(new_value, CounterValue)
                 THEN Append(stored, new_value) ELSE stored
    /\ last_ret' = [op |-> "set_if_greater", old |-> CounterValue,
                    amount |-> new_value, ret |-> [kind |-> "ok", val |-> 0]]
    /\ UNCHANGED <<build, loaded>>

\* AtomicCounterReader::load / load_relaxed: the value the counter holds.
load(r) ==
    /\ loaded' = [loaded EXCEPT ![r] = Len(stored)]
    /\ UNCHANGED <<build, stored, last_ret>>

WriterFetchAdd ==
    \E amount \in 0..MaxUsize : fetch_add(amount)

WriterIncrementAndGet ==
    \E amount \in 0..MaxUsize : increment_and_get_relaxed(amount)

WriterSetIfGreater ==
    \E new_value \in 0..MaxUsize : set_if_greater(new_value)

ReaderLoad ==
    \E r \in Readers : load(r)

(***************************************************************************)
(* EngineRef::next_connection_id, called through clones of one EngineRef   *)
(* by embedded client attaches and outgoing peer dials on any thread.      *)
(***************************************************************************)
Callers == 1..NumCallers

Idle == [at |-> "idle"]

EngineInit ==
    /\ current_connection_id = 0                   \* EngineRef::new
    /\ caller = [c \in Callers |-> Idle]
    /\ issued = <<>>

CallsBegun == Len(issued) + Cardinality({c \in Callers : caller[c].at = "fetched"})

\* a load where the fetch_add should be: the counter is read, never advanced
connection_id_load_only(current) == current

\* current_connection_id.fetch_add(1, SeqCst), one atomic step
connection_id_fetch_add(current) == Wrap(current + 1)

\* old + 1
next_connection_id_result(old) == Wrap(old + 1)

\* connect_client and create_outgoing_connection both begin with
\* engine_ref.next_connection_id().
next_connection_id_fetch(c, via) ==
    /\ caller[c].at = "idle"
    /\ CallsBegun < MaxCalls
    /\ current_connection_id' = connection_id_fetch_add(current_connection_id)
    /\ caller' = [caller EXCEPT ![c] = [at |-> "fetched", via |-> via,
                                        old |-> current_connection_id]]
    /\ UNCHANGED issued

next_connection_id_return(c) ==
    /\ caller[c].at = "fetched"
    /\ issued' = Append(issued, [id |-> next_connection_id_result(caller[c].old),
                                 via |-> caller[c].via, by |-> c])
    /\ caller' = [caller EXCEPT ![c] = Idle]
    /\ UNCHANGED current_connection_id

\* EmbeddedFloServer::connect_client on some thread
ConnectClientFetch ==
    \E c \in Callers : next_connection_id_fetch(c, "connect_client")

\* create_outgoing_connection on some thread
OutgoingConnectionFetch ==
    \E c \in Callers : next_connection_id_fetch(c, "create_outgoing_connection")

NextConnectionIdReturn ==
    \E c \in Callers : next_connection_id_return(c)

(***************************************************************************)
(* OutgoingConnectionCreatorImpl::establish_system_connection.  The        *)
(* caller takes a connection id and hands a task to an event loop; the     *)
(* task connects and then either reports the failure to the system stream  *)
(* or creates the connection handler.                                      *)
(***************************************************************************)
Addresses == {"peerA", "peerB"}

DialInit ==
    /\ dials = <<>>
    /\ failure_reports = <<>>
    /\ handlers = <<>>

\* map_err(closure): the closure runs on Err
map_err_runs(result) == result = "Err"

\* a closure chained so that it runs whatever the connect returned
and_then_runs_always(result) == result \in {"Ok", "Err"}

\* and_then(closure): the closure runs on Ok
and_then_runs(result) == result = "Ok"

\* create_outgoing_connection after next_connection_id's atomic step: the id
\* is old + 1, the task is spawned, (control_tx, connection_id) is returned.
create_outgoing_connection(c, client_addr) ==
    /\ caller[c].at = "fetched"
    /\ caller[c].via = "create_outgoing_connection"
    /\ next_connection_id_return(c)
    /\ dials' = Append(dials, [address |-> client_addr,
                               connection_id |-> next_connection_id_result(caller[c].old),
                               task |-> "spawned"])
    /\ UNCHANGED <<failure_reports, handlers>>

\* The spawned task once TcpStream::connect has returned `result`.
outgoing_connection_task(d, result) ==
    /\ dials[d].task = "spawned"
    /\ dials' = [dials EXCEPT ![d].task = result]
    /\ failure_reports' =
          IF map_err_runs(result)
          THEN Append(failure_reports, [address |-> dials[d].address, dial |-> d])
          ELSE failure_reports
    /\ handlers' =
          IF and_then_runs(result)
          THEN Append(handlers, [connection_id |-> dials[d].connection_id,
                                 address |-> dials[d].address, dial |-> d])
          ELSE handlers
    /\ UNCHANGED engine_vars

\* establish_system_connection up to the atomic step of next_connection_id
BeginSystemConnection ==
    Len(dials) < MaxDials /\ CallsBegun < MaxDials /\ OutgoingConnectionFetch

EstablishSystemConnection ==
    \E c \in Callers, address \in Addresses : create_outgoing_connection(c, address)

ConnectFails ==
    \E d \in 1..Len(dials) : outgoing_connection_task(d, "Err")

ConnectSucceeds ==
    \E d \in 1..Len(dials) : outgoing_connection_task(d, "Ok")

(***************************************************************************)
(* EngineRef::get_stream and get_default_stream: lookups in the registry   *)
(* of named streams, a HashMap behind one Mutex shared by every clone of   *)
(* the EngineRef.  No source file at hand inserts into the map; streams    *)
(* are added as the specification describes (section 5: the mutex is held  *)
(* during lookup/insert), and the system stream is kept apart from the     *)
(* named streams (section 4.G).                                            *)
(***************************************************************************)
StreamNames == {"alpha", "beta"}

\* An EventStreamRef of a named stream; the handle to_event_stream() gives
\* for the system stream.
EventStream(k) == [system |-> FALSE, id |-> k]
SystemEventStream == [system |-> TRUE]

NoStreams == [n \in {} |-> SystemEventStream]

Values(streams) == {streams[n] : n \in DOMAIN streams}

Ok_stream(stream_ref) == [kind |-> "Ok", stream |-> stream_ref]
Err_NoStream == [kind |-> "Err", err |-> "NoStream"]

RegistryInit ==
    /\ event_streams = NoStreams
    /\ registry_lock = 0
    /\ lookup = [c \in Callers |-> Idle]
    /\ lookups_begun = 0
    /\ last_result = [op |-> "none"]

\* a lookup that settles for whatever stream the map holds
get_stream_any(streams, stream_name) ==
    IF DOMAIN streams # {}
    THEN Ok_stream(streams[CHOOSE n \in DOMAIN streams : TRUE])
    ELSE Err_NoStream

\* streams.get(stream_name).map(|s| s.clone()): Ok(stream) or Err(NoStream)
get_stream_result(streams, stream_name) ==
    IF stream_name \in DOMAIN streams
    THEN Ok_stream(streams[stream_name])
    ELSE Err_NoStream

\* a default that never looks into the map
default_stream_picks_none(streams) == {None}

\* guard.values().next().map(|stream| stream.clone()): the first value in
\* the HashMap's iteration order, which is any of them; None when empty
default_stream_picks(streams) ==
    IF DOMAIN streams = {} THEN {None}
    ELSE {Some(s) : s \in Values(streams)}

\* stream.unwrap_or_else(|| self.system_stream.to_event_stream())
unwrap_or_system_stream(picked) ==
    IF picked.some THEN picked.val ELSE SystemEventStream

\* The call has begun: the thread is about to lock the mutex.
lookup_call(c, op, stream_name) ==
    /\ lookup[c].at = "idle"
    /\ lookups_begun < MaxLookups
    /\ lookups_begun' = lookups_begun + 1
    /\ lookup' = [lookup EXCEPT ![c] = [at |-> "waiting", op |-> op,
                                        name |-> stream_name]]
    /\ UNCHANGED <<event_streams, registry_lock, last_result>>

\* self.event_streams.lock().unwrap()
lock_event_streams(c) ==
    /\ lookup[c].at = "waiting"
    /\ registry_lock = 0
    /\ registry_lock' = c
    /\ lookup' = [lookup EXCEPT ![c].at = "locked"]
    /\ UNCHANGED <<event_streams, lookups_begun, last_result>>

\* get_stream under the lock; the guard is dropped as the function returns.
get_stream(c) ==
    /\ lookup[c].at = "locked"
    /\ lookup[c].op = "get_stream"
    /\ last_result' = [op |-> "get_stream", name |-> lookup[c].name,
                       seen |-> event_streams,
                       result |-> get_stream_result(event_streams, lookup[c].name)]
    /\ registry_lock' = 0
    /\ lookup' = [lookup EXCEPT ![c] = Idle]
    /\ UNCHANGED <<event_streams, lookups_begun>>

\* get_default_stream's inner block: the guard is dropped at its end.
get_default_stream_pick(c) ==
    /\ lookup[c].at = "locked"
    /\ lookup[c].op = "get_default_stream"
    /\ \E picked \in default_stream_picks(event_streams) :
          lookup' = [lookup EXCEPT ![c] = [at |-> "picked", op |-> lookup[c].op,
                                           name |-> lookup[c].name,
                                           picked |-> picked,
                                           seen |-> event_streams]]
    /\ registry_lock' = 0
    /\ UNCHANGED <<event_streams, lookups_begun, last_result>>

\* get_default_stream after the block
get_default_stream_return(c) ==
    /\ lookup[c].at = "picked"
    /\ last_result' = [op |-> "get_default_stream",
                       name |-> lookup[c].name, seen |-> lookup[c].seen,
                       result |-> unwrap_or_system_stream(lookup[c].picked)]
    /\ lookup' = [lookup EXCEPT ![c] = Idle]
    /\ UNCHANGED <<event_streams, registry_lock, lookups_begun>>

\* A new named stream is put into the map under the lock; its handle is
\* one the map does not hold yet.
insert_stream(stream_name) ==
    /\ registry_lock = 0
    /\ stream_name \notin DOMAIN event_streams
    /\ event_streams' = [n \in DOMAIN event_streams \cup {stream_name} |->
                            IF n = stream_name
                            THEN EventStream(Cardinality(DOMAIN event_streams) + 1)
                            ELSE event_streams[n]]
    /\ UNCHANGED <<registry_lock, lookup, lookups_begun, last_result>>

RegisterStream ==
    \E stream_name \in StreamNames : insert_stream(stream_name)

GetStreamCall ==
    \E c \in Callers, stream_name \in StreamNames :
        lookup_call(c, "get_stream", stream_name)

GetDefaultStreamCall ==
    \E c \in Callers : lookup_call(c, "get_default_stream", "")

LockRegistry ==
    \E c \in Callers : lock_event_streams(c)

GetStreamReturn ==
    \E c \in Callers : get_stream(c)

GetDefaultStreamPick ==
    \E c \in Callers : get_default_stream_pick(c)

GetDefaultStreamReturn ==
    \E c \in Callers : get_default_stream_return(c)

(***************************************************************************)
(* The stream engine (spec 4.F) and the connection handler (spec 4.E).     *)
(* Their code is not among the source files; they are modelled from the    *)
(* specification.  One connection talks to one stream; a peer actor's      *)
(* events reach the same stream by replication.                            *)
(***************************************************************************)
LocalActor == 1
RemoteActor == 2
Actors == {LocalActor, RemoteActor}

\* "Effective batch size is the client's last SetBatchSize (default 10 000 if
\* never set), clamped by server policy."
DEFAULT_BATCH_SIZE == 10000

\* Namespaces and patterns as their segments: "/a/x", "/b"; "/a/*", "**".
Namespaces == {<<"a", "x">>, <<"b">>}
\* the namespace of the peer actor's events
RemoteNamespace == <<"a", "x">>
Patterns == {<<"a", "*">>, <<"**">>}

\* "segments separated by /; * matches one non-empty segment, ** matches zero
\* or more segments, others match literally"
RECURSIVE glob_matches(_, _)
glob_matches(pattern, ns) ==
    IF pattern = <<>> THEN ns = <<>>
    ELSE IF Head(pattern) = "**"
         THEN \E k \in 0..Len(ns) : glob_matches(Tail(pattern), Drop(ns, k))
    ELSE IF ns = <<>> THEN FALSE
    ELSE /\ Head(pattern) = "*" \/ Head(pattern) = Head(ns)
         /\ glob_matches(Tail(pattern), Tail(ns))

\* highest_counter(actor): 0 when the store holds no event of the actor
highest_counter(log, actor) ==
    LET cs == {log[k].id.event_counter : k \in {j \in 1..Len(log) : log[j].id.actor = actor}}
    IN  IF cs = {} THEN 0 ELSE CHOOSE c \in cs : \A d \in cs : d <= c

StreamInit == [log |-> <<>>, counter |-> 0, marker |-> 0]

\* a failed append that keeps the counter it fetched
append_failed_counter_consumed(st) == [st EXCEPT !.counter = st.counter + 1]

\* "On persistence failure: StorageEngineError, counter is not consumed."
append_failed(st) == st

\* append(namespace, parent_id?, data) -> EventId, when persisting works:
\* (i) the next counter of the local actor, (ii) the event persisted,
\* (iii) the commit marker advanced.  (iv), the fan-out, is ForwardEvent: a
\* cursor reads the log from its own position.
append_persisted(st, namespace) ==
    LET id == [actor |-> LocalActor, event_counter |-> st.counter + 1]
    IN  [log |-> Append(st.log, [id |-> id, namespace |-> namespace]),
         counter |-> id.event_counter,
         marker |-> id.event_counter]

\* an iteration that starts at the marker instead of after it
iterate_from_marker(log, version_vector, pattern) ==
    {k \in 1..Len(log) :
        /\ log[k].id.event_counter >= version_vector[log[k].id.actor]
        /\ glob_matches(pattern, log[k].namespace)}

\* iterate(from_version_vector, namespace_pattern): the indices of the log's
\* events after the vector's entry of their actor that match the pattern, in
\* the order of the log.
iterate(log, version_vector, pattern) ==
    {k \in 1..Len(log) :
        /\ log[k].id.event_counter > version_vector[log[k].id.actor]
        /\ glob_matches(pattern, log[k].namespace)}

\* A version vector is a small keyed sequence of event ids.
marker_of(version_vector, actor) ==
    LET ks == {k \in 1..Len(version_vector) : version_vector[k].actor = actor}
    IN  IF ks = {} THEN 0 ELSE version_vector[CHOOSE k \in ks : TRUE].event_counter

has_marker(version_vector, actor) ==
    \E k \in 1..Len(version_vector) : version_vector[k].actor = actor

\* the ids a client sends in UpdateMarker
MarkerIds == {[actor |-> LocalActor, event_counter |-> 1],
              [actor |-> LocalActor, event_counter |-> 2]}

NoCursor == [state |-> "Idle"]

ConnInit ==
    [open |-> TRUE, mode |-> "Fresh", batch_size |-> DEFAULT_BATCH_SIZE,
     version_vector |-> <<>>, cursor |-> NoCursor]

HandlerInit ==
    /\ conn = ConnInit
    /\ stream = StreamInit
    /\ pending = <<>>
    /\ emitted = <<>>
    /\ produce_log = <<>>
    /\ cursor_log = <<>>

\* The entries of the logs.
In(m) == [dir |-> "in", msg |-> m]
Out(m) == [dir |-> "out", msg |-> m]

AckEvent(op_id, event_id) == [type |-> "AckEvent", op_id |-> op_id, event_id |-> event_id]
ErrorMessage(op_id, kind) == [type |-> "Error", op_id |-> op_id, kind |-> kind]
CursorCreated(op_id, batch_size) ==
    [type |-> "CursorCreated", op_id |-> op_id, batch_size |-> batch_size]
ReceiveEvent(event) == [type |-> "ReceiveEvent", event |-> event]
EndOfBatch == [type |-> "EndOfBatch"]
AwaitingEvents == [type |-> "AwaitingEvents"]

Entries(log, dir, types) ==
    {k \in 1..Len(log) : log[k].dir = dir /\ log[k].msg.type \in types}

\* The client numbers its produce operations 1, 2, 3, ...; its cursor has the
\* number after them.
NextOpId == Cardinality(Entries(produce_log, "in", {"ProduceEvent"})) + 1
CursorOpId == MaxProduces + 1

\* "Fresh -> Client on any of {ProduceEvent, StartConsuming, SetBatchSize,
\* UpdateMarker, ClientAuth}.  Fresh -> Peer on PeerAnnounce."
ClientMessages ==
    {"ProduceEvent", "StartConsuming", "SetBatchSize", "UpdateMarker", "ClientAuth"}

mode_after(mode, type) ==
    IF mode # "Fresh" THEN mode
    ELSE IF type = "PeerAnnounce" THEN "Peer"
    ELSE IF type \in ClientMessages THEN "Client"
    ELSE "Fresh"

\* "cross-role messages are rejected with InvalidConsumerState"
cross_role(mode, type) ==
    \/ mode = "Peer" /\ type \in ClientMessages
    \/ mode = "Client" /\ type = "PeerAnnounce"

\* The handler turns a message away: an Error reply, nothing else changes.
\* "Every error reply must echo the originating op_id where one exists."
Reject(op_id, kind) ==
    /\ emitted' = <<ErrorMessage(op_id, kind)>>
    /\ UNCHANGED <<conn, stream, pending, produce_log, cursor_log>>

\* the completion of a produce that reports only success
produce_reply_ack_only(op_id, event_id, persisted) ==
    IF persisted THEN <<AckEvent(op_id, event_id)>> ELSE <<>>

\* "on completion emits either AckEvent (echoing op_id) or Error"
produce_reply(op_id, event_id, persisted) ==
    IF persisted THEN <<AckEvent(op_id, event_id)>>
    ELSE <<ErrorMessage(op_id, "StorageEngineError")>>

\* ProduceEvent: the header is decoded, the body streamed into its buffer and
\* the event submitted to the stream engine.
RecvProduceEvent ==
    /\ conn.open
    /\ NextOpId <= MaxProduces
    /\ \E ns \in Namespaces :
          LET m == [type |-> "ProduceEvent", op_id |-> NextOpId, namespace |-> ns]
          IN  IF cross_role(conn.mode, m.type)
              THEN /\ emitted' = <<ErrorMessage(m.op_id, "InvalidConsumerState")>>
                   /\ produce_log' = produce_log \o <<In(m), Out(emitted'[1])>>
                   /\ UNCHANGED <<conn, stream, pending, cursor_log>>
              ELSE /\ conn' = [conn EXCEPT !.mode = mode_after(conn.mode, m.type)]
                   /\ pending' = Append(pending, m)
                   /\ emitted' = <<>>
                   /\ produce_log' = Append(produce_log, In(m))
                   /\ UNCHANGED <<stream, cursor_log>>

\* The stream's appender task takes the oldest submitted produce; persisting
\* works or fails; the handler emits the reply.
CompleteProduce ==
    /\ pending # <<>>
    /\ \E persisted \in BOOLEAN :
          LET m == Head(pending)
              st == IF persisted THEN append_persisted(stream, m.namespace)
                    ELSE append_failed(stream)
              event_id == [actor |-> LocalActor, event_counter |-> st.counter]
          IN  /\ stream' = st
              /\ pending' = Tail(pending)
              /\ emitted' = produce_reply(m.op_id, event_id, persisted)
              /\ produce_log' = produce_log \o [k \in 1..Len(emitted') |-> Out(emitted'[k])]
              /\ UNCHANGED <<conn, cursor_log>>

\* A produce of another connection of the stream completes.
AppendByOtherConnection ==
    /\ Len(stream.log) < MaxEvents
    /\ \E ns \in Namespaces, persisted \in BOOLEAN :
          stream' = IF persisted THEN append_persisted(stream, ns)
                    ELSE append_failed(stream)
    /\ emitted' = <<>>
    /\ UNCHANGED <<conn, pending, produce_log, cursor_log>>

\* An event of the peer actor arrives by replication and is stored under the
\* originator's (actor, counter); an arrival already stored is discarded.
ReplicateRemote ==
    /\ \E c \in 1..(highest_counter(stream.log, RemoteActor) + 1) :
          /\ c > highest_counter(stream.log, RemoteActor) => Len(stream.log) < MaxEvents
          /\ stream' =
                IF c <= highest_counter(stream.log, RemoteActor) THEN stream
                ELSE [stream EXCEPT !.log =
                        Append(@, [id |-> [actor |-> RemoteActor, event_counter |-> c],
                                   namespace |-> RemoteNamespace])]
    /\ emitted' = <<>>
    /\ UNCHANGED <<conn, pending, produce_log, cursor_log>>

\* "UpdateMarker updates the handler's per-actor read position.  Multiple
\* markers accumulate into a version vector; any actor appearing twice fails
\* InvalidVersionVector."  A cursor starts from the vector as it is at its
\* StartConsuming.  The client is taken to send its markers before it starts
\* to consume, and at most one marker that is refused for its actor.
RecvUpdateMarker ==
    /\ conn.open
    /\ conn.cursor.state = "Idle"
    /\ \E id \in MarkerIds :
          LET actor == id.actor
              m == [type |-> "UpdateMarker", id |-> id]
          IN  IF cross_role(conn.mode, m.type)
              THEN Reject(0, "InvalidConsumerState")
              ELSE IF has_marker(conn.version_vector, actor)
              THEN /\ Entries(cursor_log, "out", {"Error"}) = {}
                   /\ emitted' = <<ErrorMessage(0, "InvalidVersionVector")>>
                   /\ cursor_log' = cursor_log \o <<In(m), Out(emitted'[1])>>
                   /\ UNCHANGED <<conn, stream, pending, produce_log>>
              ELSE /\ conn' = [conn EXCEPT
                                 !.mode = mode_after(conn.mode, m.type),
                                 !.version_vector = Append(@, m.id)]
                   /\ emitted' = <<>>
                   /\ cursor_log' = Append(cursor_log, In(m))
                   /\ UNCHANGED <<stream, pending, produce_log>>

\* a handler that refuses SetBatchSize only while events are flowing
set_batch_size_refused_while_active(cursor_state) == cursor_state = "Active"

\* "SetBatchSize is rejected with InvalidConsumerState while cursor is Active
\* or WaitingForNext."
set_batch_size_refused(cursor_state) ==
    cursor_state \in {"Active", "WaitingForNext"}

RecvSetBatchSize ==
    /\ conn.open
    /\ \E n \in {1, MaxBatch} :
          IF cross_role(conn.mode, "SetBatchSize")
             \/ set_batch_size_refused(conn.cursor.state)
          THEN Reject(0, "InvalidConsumerState")
          ELSE /\ conn' = [conn EXCEPT !.mode = mode_after(conn.mode, "SetBatchSize"),
                                       !.batch_size = n]
               /\ emitted' = <<>>
               /\ UNCHANGED <<stream, pending, produce_log, cursor_log>>

\* "Effective batch size is the client's last SetBatchSize (default 10 000 if
\* never set), clamped by server policy."
effective_batch_size(batch_size) ==
    IF batch_size > MaxBatch THEN MaxBatch ELSE batch_size

\* "StartConsuming when Idle: creates cursor, replies
\* CursorCreated(op_id, effective_batch_size)."
new_cursor(m, batch_size, version_vector) ==
    [state |-> "Active",
     op_id |-> m.op_id,
     namespace_pattern |-> m.namespace,
     remaining_event_budget |-> m.max_events,
     batch_size |-> batch_size,
     batch_remaining |-> batch_size,
     end_of_stream_signaled |-> FALSE,
     version_vector |-> [a \in Actors |-> marker_of(version_vector, a)]]

RecvStartConsuming ==
    /\ conn.open
    /\ \E pattern \in Patterns, max_events \in {1, MaxBudget} :
          LET m == [type |-> "StartConsuming", op_id |-> CursorOpId,
                    namespace |-> pattern, max_events |-> max_events]
              batch_size == effective_batch_size(conn.batch_size)
          IN  IF cross_role(conn.mode, m.type) \/ conn.cursor.state # "Idle"
              THEN Reject(m.op_id, "InvalidConsumerState")
              ELSE /\ conn' = [conn EXCEPT
                                 !.mode = mode_after(conn.mode, m.type),
                                 !.cursor = new_cursor(m, batch_size, conn.version_vector)]
                   /\ emitted' = <<CursorCreated(m.op_id, batch_size)>>
                   /\ cursor_log' = cursor_log \o <<In(m), Out(emitted'[1])>>
                   /\ UNCHANGED <<stream, pending, produce_log>>

\* The next event of the iteration, when there is one.
NextIndex(cursor) ==
    LET ks == iterate(stream.log, cursor.version_vector, cursor.namespace_pattern)
    IN  IF ks = {} THEN 0 ELSE CHOOSE k \in ks : \A j \in ks : k <= j

\* a cursor that goes on after its batch is full
after_forward_no_pause(cursor, id) ==
    [cursor EXCEPT
        !.version_vector[id.actor] = id.event_counter,
        !.batch_remaining = IF @ > 0 THEN @ - 1 ELSE 0,
        !.remaining_event_budget = @ - 1,
        !.state = IF cursor.remaining_event_budget = 1 THEN "Stopped" ELSE "Active"]

\* The cursor after it has forwarded the event `id`: "After forwarding
\* batch_size events it emits EndOfBatch and moves to WaitingForNext"; with
\* the event budget (max_events) used up the cursor is done.
after_forward(cursor, id) ==
    [cursor EXCEPT
        !.version_vector[id.actor] = id.event_counter,
        !.batch_remaining = @ - 1,
        !.remaining_event_budget = @ - 1,
        !.state = IF cursor.remaining_event_budget = 1 THEN "Stopped"
                  ELSE IF cursor.batch_remaining = 1 THEN "WaitingForNext"
                  ELSE "Active"]

\* "While Active, the connection forwards matching events."
ForwardEvent ==
    /\ conn.open
    /\ conn.cursor.state = "Active"
    /\ NextIndex(conn.cursor) # 0
    /\ LET event == stream.log[NextIndex(conn.cursor)]
           cursor == after_forward(conn.cursor, event.id)
       IN  /\ conn' = [conn EXCEPT !.cursor = cursor]
           /\ emitted' = <<ReceiveEvent(event)>>
                             \o (IF cursor.state = "Active" THEN <<>> ELSE <<EndOfBatch>>)
           /\ cursor_log' = cursor_log \o [k \in 1..Len(emitted') |-> Out(emitted'[k])]
    /\ UNCHANGED <<stream, pending, produce_log>>

\* a handler that does not latch the flag
end_of_stream_never_latched(cursor) == cursor

\* "emits AwaitingEvents once (flag latched), then continues Active"
end_of_stream_latched(cursor) == [cursor EXCEPT !.end_of_stream_signaled = TRUE]

\* "If the server reaches the end of the persisted log while Active"
ReachEndOfLog ==
    /\ conn.open
    /\ conn.cursor.state = "Active"
    /\ NextIndex(conn.cursor) = 0
    /\ ~conn.cursor.end_of_stream_signaled
    /\ conn' = [conn EXCEPT !.cursor = end_of_stream_latched(conn.cursor)]
    /\ emitted' = <<AwaitingEvents>>
    /\ cursor_log' = Append(cursor_log, Out(AwaitingEvents))
    /\ UNCHANGED <<stream, pending, produce_log>>

\* "NextBatch when WaitingForNext resets the counter and re-enters Active."
RecvNextBatch ==
    /\ conn.open
    /\ LET m == [type |-> "NextBatch"]
       IN  IF conn.cursor.state # "WaitingForNext"
           THEN Reject(0, "InvalidConsumerState")
           ELSE /\ conn' = [conn EXCEPT !.cursor.state = "Active",
                                        !.cursor.batch_remaining = conn.cursor.batch_size]
                /\ emitted' = <<>>
                /\ cursor_log' = Append(cursor_log, In(m))
                /\ UNCHANGED <<stream, pending, produce_log>>

\* "StopConsuming from any cursor state transitions to Stopped"; without a
\* cursor there is nothing to stop.
RecvStopConsuming ==
    /\ conn.open
    /\ conn.cursor.state \in {"Active", "WaitingForNext"}
    /\ conn' = [conn EXCEPT !.cursor.state = "Stopped"]
    /\ emitted' = <<>>
    /\ cursor_log' = Append(cursor_log, In([type |-> "StopConsuming"]))
    /\ UNCHANGED <<stream, pending, produce_log>>

\* "Fresh -> Peer on PeerAnnounce"; "Peer => Peer".
RecvPeerAnnounce ==
    /\ conn.open
    /\ IF cross_role(conn.mode, "PeerAnnounce")
       THEN Reject(0, "InvalidConsumerState")
       ELSE /\ conn' = [conn EXCEPT !.mode = mode_after(conn.mode, "PeerAnnounce")]
            /\ emitted' = <<>>
            /\ UNCHANGED <<stream, pending, produce_log, cursor_log>>

\* "The ClientAuth message ... performs no check; retain the wire slot and
\* reject with InvalidConsumerState if used."
RecvClientAuth ==
    /\ conn.open
    /\ conn' = [conn EXCEPT !.mode = mode_after(conn.mode, "ClientAuth")]
    /\ emitted' = <<ErrorMessage(0, "InvalidConsumerState")>>
    /\ UNCHANGED <<stream, pending, produce_log, cursor_log>>

\* "Closing a connection cancels its cursor and drops any in-flight produce
\* buffers."
CloseConnection ==
    /\ conn.open
    /\ conn' = [conn EXCEPT
                  !.open = FALSE,
                  !.cursor = IF conn.cursor.state = "Idle" THEN NoCursor
                             ELSE [conn.cursor EXCEPT !.state = "Stopped"]]
    /\ pending' = <<>>
    /\ emitted' = <<>>
    /\ UNCHANGED <<stream, produce_log, cursor_log>>

(***************************************************************************)
(* The specifications.  Each part of the program runs on its own; the      *)
(* other parts stay as constructed.                                        *)
(***************************************************************************)
CounterIdle ==
    /\ build = "release"
    /\ stored = <<0>>
    /\ last_ret = [op |-> "none"]
    /\ loaded = [r \in Readers |-> 0]

CodecOnly ==
    UNCHANGED <<counter_vars, engine_vars, handler_vars, dial_vars, registry_vars>>
CounterOnly ==
    UNCHANGED <<codec_vars, engine_vars, handler_vars, dial_vars, registry_vars>>
EngineOnly ==
    UNCHANGED <<codec_vars, counter_vars, handler_vars, dial_vars, registry_vars>>
HandlerOnly ==
    UNCHANGED <<codec_vars, counter_vars, engine_vars, dial_vars, registry_vars>>
DialOnly == UNCHANGED <<codec_vars, counter_vars, handler_vars, registry_vars>>
RegistryOnly ==
    UNCHANGED <<codec_vars, counter_vars, engine_vars, handler_vars, dial_vars>>

Idles == CounterIdle /\ EngineInit /\ HandlerInit /\ DialInit /\ RegistryInit

Init == CodecInit /\ Idles
Next ==
    \/ SerializeMessage /\ CodecOnly
    \/ SendBytes /\ CodecOnly
    \/ Truncate /\ CodecOnly
    \/ Corrupt /\ CodecOnly
    \/ Parse /\ CodecOnly
Spec == Init /\ [][Next]_vars

InitCounter ==
    CodecInit /\ CounterInit /\ EngineInit /\ HandlerInit /\ DialInit /\ RegistryInit
NextCounter ==
    \/ WriterFetchAdd /\ CounterOnly
    \/ WriterIncrementAndGet /\ CounterOnly
    \/ WriterSetIfGreater /\ CounterOnly
    \/ ReaderLoad /\ CounterOnly
CounterSpec == InitCounter /\ [][NextCounter]_vars

InitEngine == CodecInit /\ Idles
NextEngine ==
    \/ ConnectClientFetch /\ EngineOnly
    \/ OutgoingConnectionFetch /\ EngineOnly
    \/ NextConnectionIdReturn /\ EngineOnly
EngineSpec == InitEngine /\ [][NextEngine]_vars

InitHandler == CodecInit /\ Idles

\* A connection that produces.
NextProducer ==
    \/ RecvProduceEvent /\ HandlerOnly
    \/ CompleteProduce /\ HandlerOnly
    \/ ReplicateRemote /\ HandlerOnly
    \/ RecvPeerAnnounce /\ HandlerOnly
    \/ RecvClientAuth /\ HandlerOnly
    \/ CloseConnection /\ HandlerOnly
ProducerSpec == InitHandler /\ [][NextProducer]_vars

\* The connection on its own; the appender task of the stream is scheduled as
\* long as it has work.
NextProduce ==
    \/ RecvProduceEvent /\ HandlerOnly
    \/ CompleteProduce /\ HandlerOnly
    \/ RecvPeerAnnounce /\ HandlerOnly
    \/ RecvClientAuth /\ HandlerOnly
    \/ CloseConnection /\ HandlerOnly
ProducerLiveSpec ==
    InitHandler /\ [][NextProduce]_vars /\ WF_vars(CompleteProduce /\ HandlerOnly)

\* A connection that consumes, while the stream grows.
NextConsumer ==
    \/ AppendByOtherConnection /\ HandlerOnly
    \/ ReplicateRemote /\ HandlerOnly
    \/ RecvUpdateMarker /\ HandlerOnly
    \/ RecvSetBatchSize /\ HandlerOnly
    \/ RecvStartConsuming /\ HandlerOnly
    \/ ForwardEvent /\ HandlerOnly
    \/ ReachEndOfLog /\ HandlerOnly
    \/ RecvNextBatch /\ HandlerOnly
    \/ RecvStopConsuming /\ HandlerOnly
ConsumerSpec == InitHandler /\ [][NextConsumer]_vars

\* Threads that resolve streams through clones of one EngineRef while the
\* controller adds streams.  A thread runs on once it is called, and the
\* mutex is handed to a thread that waits for it.
NextRegistry ==
    \/ RegisterStream /\ RegistryOnly
    \/ GetStreamCall /\ RegistryOnly
    \/ GetDefaultStreamCall /\ RegistryOnly
    \/ LockRegistry /\ RegistryOnly
    \/ GetStreamReturn /\ RegistryOnly
    \/ GetDefaultStreamPick /\ RegistryOnly
    \/ GetDefaultStreamReturn /\ RegistryOnly
RegistryLiveSpec ==
    Init /\ [][NextRegistry]_vars
         /\ WF_vars(LockRegistry /\ RegistryOnly)
         /\ WF_vars(GetStreamReturn /\ RegistryOnly)
         /\ WF_vars(GetDefaultStreamPick /\ RegistryOnly)
         /\ WF_vars(GetDefaultStreamReturn /\ RegistryOnly)

\* Threads that dial peers, and the event loops that run the dials.
NextDial ==
    \/ BeginSystemConnection /\ EngineOnly
    \/ EstablishSystemConnection /\ DialOnly
    \/ ConnectFails /\ DialOnly
    \/ ConnectSucceeds /\ DialOnly


\* A calling thread runs on after the atomic step; the event loop polls the
\* task it was handed, and a TCP connect ends, connected or refused.
DialLiveSpec ==
    Init /\ [][NextDial]_vars
         /\ WF_vars(EstablishSystemConnection /\ DialOnly)
         /\ WF_vars((ConnectFails \/ ConnectSucceeds) /\ DialOnly)

(***************************************************************************)
(* What the claims speak of.                                               *)
(***************************************************************************)
Parsed == pc = "parsed"
Pristine == ~sent.cut /\ ~sent.corrupt

IsPeerMessage(m) == m.type \in {"PeerAnnounce", "PeerUpdate"}

HeaderLen == Len(sres.buf)

\* The bytes the sender put on the wire, before any were lost.
FullWire == sres.buf \o (IF sent.body THEN get_body(msg).val ELSE <<>>) \o sent.extra

\* A parent id as the wire can carry it: a zero counter is "no parent".
WireParent(parent) ==
    IF parent.some /\ ~IsZero(parent.val.event_counter) THEN parent ELSE None

ParentSurvives(parent) == WireParent(parent) = parent

\* Every event id of the message is one the decoder accepts and returns as it is.
IdsSurvive(m) ==
    CASE m.type = "ReceiveEvent" ->
            ~IsZero(m.event.id.event_counter) /\ ParentSurvives(m.event.parent_id)
      [] m.type = "ProduceEvent" -> ParentSurvives(m.parent_id)
      [] IsPeerMessage(m) ->
            \A k \in 1..Len(m.state.version_vector) :
                ~IsZero(m.state.version_vector[k].event_counter)
      [] OTHER -> TRUE

\* What parse_any hands back for m: a produce header has no data yet, a
\* received event is always the owned form.
Decoded(m) ==
    CASE m.type = "ProduceEvent" -> [m EXCEPT !.data = <<>>]
      [] m.type = "ReceiveEvent" -> [m EXCEPT !.repr = "Owned"]
      [] OTHER -> m

HasDuplicateActor(vv) ==
    \E j, k \in 1..Len(vv) : j # k /\ vv[j].actor = vv[k].actor

IsOneFrame(bytes) ==
    parse_any(bytes).kind = "Done" /\ parse_any(bytes).rest = <<>>

C2_PrefixIsIncomplete ==
    (Parsed /\ sent.cut /\ ~sent.corrupt /\ IsOneFrame(FullWire)) =>
        pres.kind = "Incomplete"

C2_Witness ==
    /\ Parsed /\ sent.cut /\ ~sent.corrupt
    /\ msg.type = "ClientAuth" /\ msg.password # <<>>
    /\ IsOneFrame(FullWire)
    /\ Len(wire) = Len(FullWire) - 1
    /\ pres.kind = "Incomplete"

(***************************************************************************)
(* C3.  As the claim states it: once the header of a ReceiveEvent (through *)
(* data_len) is there, parse_any is Done, whether or not payload bytes     *)
(* have arrived, and the remainder starts at the first payload byte.       *)
(***************************************************************************)
ReceiveHeaderArrived ==
    /\ Parsed /\ ~sent.corrupt
    /\ msg.type = "ReceiveEvent"
    /\ ~IsZero(msg.event.id.event_counter)
    /\ Len(wire) >= HeaderLen

ProduceHeaderArrived ==
    /\ Parsed /\ ~sent.corrupt
    /\ msg.type = "ProduceEvent"
    /\ Len(wire) >= HeaderLen

C4_ProduceEventHeaderOnly ==
    ProduceHeaderArrived =>
        /\ pres.kind = "Done"
        /\ pres.out.type = "ProduceEvent"
        /\ pres.out.namespace = msg.namespace
        /\ pres.out.parent_id = WireParent(msg.parent_id)
        /\ pres.out.op_id = msg.op_id
        /\ pres.out.data = <<>>
        /\ pres.out.capacity = Num(Len(msg.data))
        /\ pres.rest = Drop(wire, HeaderLen)

C4_Witness ==
    /\ ProduceHeaderArrived
    /\ Len(msg.data) = 2 /\ msg.parent_id = Some(IdA) /\ msg.namespace = <<47, 47>>
    /\ wire = sres.buf
    /\ pres.kind = "Done" /\ pres.rest = <<>>
    /\ pres.out.capacity = Num(2)

(***************************************************************************)
(* C5.  A decoded cluster state never carries two version-vector entries   *)
(* with the same actor id.                                                 *)
(***************************************************************************)
C5_NoDuplicateActorDecoded ==
    (Parsed /\ pres.kind = "Done" /\ IsPeerMessage(pres.out)) =>
        ~HasDuplicateActor(pres.out.state.version_vector)

(***************************************************************************)
(* C6.  Zero ids are rejected where forbidden: a complete ReceiveEvent     *)
(* frame whose id has counter 0, and a complete PeerAnnounce or PeerUpdate *)
(* frame with a version-vector entry whose counter is 0, make parse_any    *)
(* return Error; and whatever the bytes, a ReceiveEvent or version-vector  *)
(* entry that parse_any returns has a counter above 0.                     *)
(***************************************************************************)
HasZeroId(m) ==
    \/ m.type = "ReceiveEvent" /\ IsZero(m.event.id.event_counter)
    \/ /\ IsPeerMessage(m)
       /\ \E k \in 1..Len(m.state.version_vector) :
             IsZero(m.state.version_vector[k].event_counter)

C6_ZeroIdsRejected ==
    /\ (Parsed /\ Pristine /\ HasZeroId(msg)) => pres.kind = "Error"
    /\ (Parsed /\ pres.kind = "Done") => ~HasZeroId(pres.out)

C6_Witness ==
    /\ Parsed /\ Pristine
    /\ msg.type = "ReceiveEvent" /\ msg.event.id = IdZero
    /\ sent.body /\ Len(msg.event.data) = 1
    /\ pres.kind = "Error"

(***************************************************************************)
(* C7.  With an output buffer shorter than the header, serialize reports a *)
(* failure: it returns no byte count for a frame written in part, and it   *)
(* does not panic.                                                         *)
(***************************************************************************)
\* The header of m, written into a buffer that is long enough.
FullHeader(m) == serialize(m, MaxBuf).buf

C7_ShortBufferFailsCleanly ==
    /\ sres.kind # "panic"
    /\ sres.kind = "ok" => sres.buf = FullHeader(msg) /\ sres.n = Len(FullHeader(msg))

(***************************************************************************)
(* C8.  After any sequence of writer operations, from any initial value,   *)
(* the stored value never decreases.                                       *)
(***************************************************************************)
C8_NeverDecreases ==
    \A k \in 1..(Len(stored) - 1) : stored[k] <= stored[k + 1]

(***************************************************************************)
(* C9.  With one writer and concurrent readers, no reader operation        *)
(* changes the value, and every value a reader has loaded is the initial   *)
(* value or one the writer stored, and is never greater than the value the *)
(* counter holds now.                                                      *)
(***************************************************************************)
C9_ReadersSeeLowerBound ==
    [][/\ loaded' # loaded => stored' = stored
       /\ \A r \in Readers :
             loaded'[r] # 0 =>
                 /\ loaded'[r] \in 1..Len(stored')
                 /\ stored'[loaded'[r]] <= stored'[Len(stored')]]_vars

(***************************************************************************)
(* C10.  Connection ids are unique and dense: under any interleaving of    *)
(* next_connection_id calls through clones of one EngineRef, no two calls  *)
(* return the same id, and the ids of the calls begun so far are exactly   *)
(* 1, 2, 3, ... (the first is 1, none is skipped).                         *)
(***************************************************************************)
IdsReturned == {issued[k].id : k \in 1..Len(issued)}
IdsPending == {next_connection_id_result(caller[c].old) :
                  c \in {x \in Callers : caller[x].at = "fetched"}}

C10_ConnectionIdsUniqueAndDense ==
    /\ Cardinality(IdsReturned) = Len(issued)
    /\ IdsReturned \cap IdsPending = {}
    /\ IdsReturned \cup IdsPending = 1..CallsBegun
    /\ current_connection_id = CallsBegun

C10_Witness ==
    /\ Len(issued) = 3
    /\ issued[1].id = 2 /\ issued[2].id = 1 /\ issued[3].id = 3
    /\ issued[1].by # issued[2].by
    /\ issued[1].via # issued[2].via

(***************************************************************************)
(* C11.  Every ProduceEvent submitted on a connection is answered, as long *)
(* as the connection stays open, by exactly one reply, an AckEvent or an   *)
(* Error, that carries the op_id of the ProduceEvent: no op_id is answered *)
(* twice, no reply comes before its ProduceEvent, and a submitted          *)
(* ProduceEvent is eventually answered unless the connection is closed.    *)
(***************************************************************************)
ProduceOps == 1..MaxProduces

Submitted(op) ==
    \E k \in Entries(produce_log, "in", {"ProduceEvent"}) : produce_log[k].msg.op_id = op

RepliesTo(op) ==
    {k \in Entries(produce_log, "out", {"AckEvent", "Error"}) :
        produce_log[k].msg.op_id = op}

OneReplyEach ==
    /\ \A op \in ProduceOps : Cardinality(RepliesTo(op)) <= 1
    /\ \A k \in Entries(produce_log, "out", {"AckEvent", "Error"}) :
          \E j \in Entries(produce_log, "in", {"ProduceEvent"}) :
             j < k /\ produce_log[j].msg.op_id = produce_log[k].msg.op_id
    /\ \A k \in 1..Len(produce_log) :
          produce_log[k].dir = "out" => produce_log[k].msg.type \in {"AckEvent", "Error"}

C11_EveryProduceAnsweredOnce ==
    /\ []OneReplyEach
    /\ \A op \in ProduceOps :
          Submitted(op) ~> (RepliesTo(op) # {} \/ ~conn.open)

C11_Witness ==
    /\ conn.open
    /\ Len(produce_log) = 4
    /\ produce_log[1].dir = "in" /\ produce_log[2].dir = "in"
    /\ produce_log[3].msg.type = "Error" /\ produce_log[3].msg.op_id = 1
    /\ produce_log[3].msg.kind = "StorageEngineError"
    /\ produce_log[4].msg.type = "AckEvent" /\ produce_log[4].msg.op_id = 2

(***************************************************************************)
(* C12.  The counters of the local actor.                                  *)
(***************************************************************************)

LocalEvents == SelectSeq(stream.log, LAMBDA e : e.id.actor = LocalActor)

Acks == SelectSeq(produce_log, LAMBDA e : e.dir = "out" /\ e.msg.type = "AckEvent")

\* C12: within the stream the counters of the local actor's events are
\* 1, 2, 3, ... in the order of the log, without a gap and without a repeat,
\* and so are the ids the producers were acknowledged with; a failed append
\* (answered StorageEngineError) consumes no counter: the stream's counter is
\* always the number of local events persisted.
C12_LocalCountersDense ==
    /\ \A k \in 1..Len(LocalEvents) : LocalEvents[k].id.event_counter = k
    /\ stream.counter = Len(LocalEvents)
    /\ \A k \in 1..Len(Acks) :
          Acks[k].msg.event_id = [actor |-> LocalActor, event_counter |-> k]

\* An append that failed between two that succeeded.
C12_Witness ==
    /\ Len(produce_log) = 6
    /\ produce_log[4].msg = AckEvent(1, [actor |-> LocalActor, event_counter |-> 1])
    /\ produce_log[5].msg = ErrorMessage(2, "StorageEngineError")
    /\ produce_log[6].msg = AckEvent(3, [actor |-> LocalActor, event_counter |-> 2])
    /\ Len(LocalEvents) = 2

(***************************************************************************)
(* C13.  Batches.                                                          *)
(***************************************************************************)

IsOut(k, type) == cursor_log[k].dir = "out" /\ cursor_log[k].msg.type = type
IsIn(k, type) == cursor_log[k].dir = "in" /\ cursor_log[k].msg.type = type

\* The last StartConsuming or NextBatch before position k; 0 without one.
BatchStart(k) ==
    LET bs == {j \in 1..(k - 1) : IsIn(j, "StartConsuming") \/ IsIn(j, "NextBatch")}
    IN  IF bs = {} THEN 0 ELSE CHOOSE j \in bs : \A i \in bs : i <= j

\* The events forwarded after position j up to position k.
EventsBetween(j, k) == Cardinality({i \in (j + 1)..k : IsOut(i, "ReceiveEvent")})

\* What the cursor was created with.
GrantedBatchSize ==
    LET k == CHOOSE j \in 1..Len(cursor_log) : IsOut(j, "CursorCreated")
    IN  cursor_log[k].msg.batch_size
RequestedMaxEvents ==
    LET k == CHOOSE j \in 1..Len(cursor_log) : IsIn(j, "StartConsuming")
    IN  cursor_log[k].msg.max_events

\* C13: EndOfBatch is emitted after exactly batch_size events since the last
\* StartConsuming or NextBatch, or after fewer when max_events is used up;
\* a full batch is always closed by EndOfBatch, and no event is forwarded
\* between an EndOfBatch and the next NextBatch.
C13_EndOfBatchAfterBatchSize ==
    \A k \in 1..Len(cursor_log) :
       /\ IsOut(k, "EndOfBatch") =>
             /\ BatchStart(k) # 0
             /\ IsOut(k - 1, "ReceiveEvent")
             /\ \/ EventsBetween(BatchStart(k), k) = GrantedBatchSize
                \/ /\ EventsBetween(BatchStart(k), k) < GrantedBatchSize
                   /\ EventsBetween(0, k) = RequestedMaxEvents
       /\ IsOut(k, "ReceiveEvent") =>
             /\ BatchStart(k) # 0
             /\ \A j \in BatchStart(k)..k : ~IsOut(j, "EndOfBatch")
             /\ EventsBetween(BatchStart(k), k) <= GrantedBatchSize
             /\ EventsBetween(BatchStart(k), k) = GrantedBatchSize =>
                   k < Len(cursor_log) /\ IsOut(k + 1, "EndOfBatch")

\* A batch of one event, NextBatch, and another event.
C13_Witness ==
    /\ Len(cursor_log) >= 6
    /\ IsIn(1, "StartConsuming") /\ cursor_log[1].msg.max_events = 2
    /\ IsOut(2, "CursorCreated") /\ cursor_log[2].msg.batch_size = 1
    /\ IsOut(3, "ReceiveEvent")
    /\ IsOut(4, "EndOfBatch")
    /\ IsIn(5, "NextBatch")
    /\ IsOut(6, "ReceiveEvent")

(***************************************************************************)
(* C14.  AwaitingEvents.                                                   *)
(***************************************************************************)

AwaitingSent == {k \in 1..Len(cursor_log) : IsOut(k, "AwaitingEvents")}

\* C14: AwaitingEvents is sent at most once per cursor, however often the
\* cursor catches up with the end of the log.
C14_AwaitingEventsAtMostOnce == Cardinality(AwaitingSent) <= 1

\* The cursor has caught up twice: AwaitingEvents was sent, an event that
\* arrived later was forwarded, and the cursor is at the end of the log again.
C14_Witness ==
    /\ \E k \in AwaitingSent : \E j \in (k + 1)..Len(cursor_log) : IsOut(j, "ReceiveEvent")
    /\ conn.cursor.state = "Active"
    /\ NextIndex(conn.cursor) = 0

(***************************************************************************)
(* C15.  Markers.                                                          *)
(***************************************************************************)

\* The UpdateMarkers the client sent before its StartConsuming, and those of
\* them the handler took into the version vector (the others were answered
\* with an Error).
MarkersSent == {k \in 1..Len(cursor_log) : IsIn(k, "UpdateMarker")}
MarkersAccepted == {k \in MarkersSent : ~(k < Len(cursor_log) /\ IsOut(k + 1, "Error"))}

Received == {k \in 1..Len(cursor_log) : IsOut(k, "ReceiveEvent")}
ReceivedId(k) == cursor_log[k].msg.event.id

NothingAtOrBelow(markers) ==
    \A k \in markers : \A j \in Received :
       ~(/\ ReceivedId(j).actor = cursor_log[k].msg.id.actor
         /\ ReceivedId(j).event_counter <= cursor_log[k].msg.id.event_counter)

PerActorOrder ==
    \A j, k \in Received :
       (j < k /\ ReceivedId(j).actor = ReceivedId(k).actor)
          => ReceivedId(j).event_counter < ReceivedId(k).event_counter

C16_SetBatchSizeRefusedWhileConsuming ==
    [][(RecvSetBatchSize /\ conn.cursor.state \in {"Active", "WaitingForNext"})
          => /\ emitted' = <<ErrorMessage(0, "InvalidConsumerState")>>
             /\ conn'.batch_size = conn.batch_size
             /\ conn'.cursor = conn.cursor
             /\ conn'.open]_vars

\* The reply to a SetBatchSize that arrived between EndOfBatch and NextBatch:
\* no other message is refused with op_id 0 in that state.
C16_Witness ==
    /\ conn.open
    /\ conn.cursor.state = "WaitingForNext"
    /\ conn.cursor.batch_size = effective_batch_size(conn.batch_size)
    /\ emitted = <<ErrorMessage(0, "InvalidConsumerState")>>

(***************************************************************************)
(* C17.  Unknown tags.                                                     *)
(***************************************************************************)

\* The first bytes no parser of parse_any accepts.
IsUnknownTag(b) == b = 0 \/ b = CLUSTER_STATE \/ b > CURSOR_CREATED

\* C17: an input that is not empty and starts with 0, with the reserved 11
\* or with a byte above 16 makes parse_any return Error, whatever follows.
C17_UnknownTagIsError ==
    (Parsed /\ wire # <<>> /\ IsUnknownTag(wire[1])) => pres.kind = "Error"

\* A frame of several bytes whose tag was overwritten with the reserved 11.
C17_Witness ==
    /\ Parsed
    /\ Len(wire) > 8
    /\ wire[1] = CLUSTER_STATE
    /\ pres.kind = "Error"

(***************************************************************************)
(* C18.  Strings that are not UTF-8.                                       *)
(***************************************************************************)

\* The bytes of a string written after `before` bytes: a u16 length, then
\* the text at first..last.
StrAt(before, s) == [first |-> before + 3, last |-> before + 2 + Len(s)]

\* Bytes of the frame before the address of member j of a cluster state.
RECURSIVE BeforeMemberAddr(_, _)
BeforeMemberAddr(state, j) ==
    IF j = 1 THEN 1 + 2 + 2 + 2 + 10 * Len(state.version_vector) + 2 + 2
    ELSE BeforeMemberAddr(state, j - 1)
            + 2 + Len(SocketAddr_display(state.other_members[j - 1].addr)) + 1 + 2

\* Where the string fields of a message lie in its frame.
StringFields(m) ==
    CASE m.type = "ClientAuth" ->
            {StrAt(1, m.namespace),
             StrAt(1 + 2 + Len(m.namespace), m.username),
             StrAt(1 + 2 + Len(m.namespace) + 2 + Len(m.username), m.password)}
      [] m.type = "ProduceEvent" -> {StrAt(1, m.namespace)}
      [] m.type = "ReceiveEvent" -> {StrAt(1 + 10 + 10 + 8, m.event.namespace)}
      [] m.type = "StartConsuming" -> {StrAt(1 + 4, m.namespace)}
      [] m.type = "Error" -> {StrAt(1 + 4 + 1, m.description)}
      [] m.type \in {"PeerAnnounce", "PeerUpdate"} ->
            {StrAt(BeforeMemberAddr(m.state, j),
                   SocketAddr_display(m.state.other_members[j].addr)) :
                j \in 1..Len(m.state.other_members)}
      [] OTHER -> {}

\* The frame is whole and as written except inside its string fields, and
\* one of them no longer is UTF-8.
InvalidUtf8InStringField ==
    /\ Len(wire) = Len(FullWire)
    /\ \A k \in 1..Len(wire) :
          wire[k] # FullWire[k] => \E f \in StringFields(msg) : k \in f.first..f.last
    /\ \E f \in StringFields(msg) : ~from_utf8_ok(SubSeq(wire, f.first, f.last))

\* C18: a complete frame with bytes that are not valid UTF-8 in one of its
\* string fields (ClientAuth namespace, username, password; ProduceEvent,
\* ReceiveEvent and StartConsuming namespace; Error description; a cluster
\* member's address) makes parse_any return Error.
C18_InvalidUtf8IsError ==
    (Parsed /\ InvalidUtf8InStringField) => pres.kind = "Error"

\* A ClientAuth whose password, the last of its three strings, is the byte
\* 192.
C18_Witness ==
    /\ Parsed
    /\ msg.type = "ClientAuth"
    /\ InvalidUtf8InStringField
    /\ LET f == StrAt(1 + 2 + Len(msg.namespace) + 2 + Len(msg.username), msg.password)
       IN  SubSeq(wire, f.first, f.last) = <<192>>

(***************************************************************************)
(* C19.  Parent ids.                                                       *)
(***************************************************************************)

HasParent(m) == m.type \in {"ProduceEvent", "ReceiveEvent"}

ParentOf(m) == IF m.type = "ProduceEvent" THEN m.parent_id ELSE m.event.parent_id

\* Bytes of the frame before the parent id: the tag and the namespace of a
\* ProduceEvent, the tag and the id of a ReceiveEvent.
BeforeParent(m) ==
    IF m.type = "ProduceEvent" THEN 1 + 2 + Len(m.namespace) ELSE 1 + 10

ParentCounterBytes(bytes, m) == SubSeq(bytes, BeforeParent(m) + 1, BeforeParent(m) + 8)
ParentActorBytes(bytes, m) == SubSeq(bytes, BeforeParent(m) + 9, BeforeParent(m) + 10)

\* C19: the encoder writes an absent parent id as counter 0, actor 0, in a
\* ProduceEvent and in a ReceiveEvent; the decoder returns an absent parent
\* exactly when the counter on the wire is 0, whatever the actor on the wire,
\* and the id on the wire otherwise; so an absent parent and a parent with a
\* counter other than 0 come back as they were sent.
C19_ParentIdNullEncoding ==
    /\ (sres.kind = "ok" /\ HasParent(msg) /\ ~ParentOf(msg).some) =>
          /\ ParentCounterBytes(sres.buf, msg) = Zeros(8)
          /\ ParentActorBytes(sres.buf, msg) = Zeros(2)
    /\ (Parsed /\ pres.kind = "Done" /\ HasParent(pres.out)) =>
          LET counter == Strip(ParentCounterBytes(wire, pres.out))
              actor == Strip(ParentActorBytes(wire, pres.out))
          IN  ParentOf(pres.out) = IF IsZero(counter) THEN None
                                   ELSE Some(FloEventId_new(actor, counter))
    /\ (Parsed /\ Pristine /\ pres.kind = "Done" /\ HasParent(msg)
               /\ (ParentOf(msg).some => ~IsZero(ParentOf(msg).val.event_counter))) =>
          /\ HasParent(pres.out)
          /\ ParentOf(pres.out) = ParentOf(msg)

\* A ReceiveEvent whose parent has the counter 0 and the actor 2: the actor
\* is on the wire, and the decoder returns no parent.
C19_Witness ==
    /\ Parsed
    /\ pres.kind = "Done"
    /\ msg.type = "ReceiveEvent"
    /\ pres.out.type = "ReceiveEvent"
    /\ ParentCounterBytes(wire, pres.out) = Zeros(8)
    /\ ParentActorBytes(wire, pres.out) = <<0, 2>>
    /\ ~ParentOf(pres.out).some

(***************************************************************************)
(* C20.  Error kinds.                                                      *)
(***************************************************************************)

ErrorKinds == {"InvalidNamespaceGlob", "InvalidConsumerState",
               "InvalidVersionVector", "StorageEngineError"}

KindBytes == {ErrorKind_u8_value(k) : k \in ErrorKinds}

\* A whole Error frame: tag, op_id, kind byte, description.
CompleteErrorFrame ==
    /\ msg.type = "Error"
    /\ Len(wire) >= Len(sres.buf)
    /\ wire[1] = ERROR_HEADER

KindByteOnWire == wire[1 + 4 + 1]

\* C20: from_u8(k.u8_value()) is Ok(k) for each of the four kinds, whose
\* bytes are 15..18; from_u8(b) is Err(b) for every other byte; and a complete
\* Error frame that carries such a byte makes parse_any return Error.
\* (The table of from_u8 does not depend on the state: it is gone through
\* once, before a message is chosen.)
C20_ErrorKindBytes ==
    /\ pc = "start" =>
          /\ KindBytes = ERROR_INVALID_NAMESPACE..ERROR_STORAGE_ENGINE_IO
          /\ \A k \in ErrorKinds : ErrorKind_from_u8(ErrorKind_u8_value(k)) = Ok(k)
          /\ \A b \in (0..255) \ KindBytes : ErrorKind_from_u8(b) = Err(b)
    /\ (Parsed /\ CompleteErrorFrame /\ KindByteOnWire \notin KindBytes) =>
          pres.kind = "Error"
    /\ (Parsed /\ CompleteErrorFrame /\ Pristine) =>
          /\ pres.kind = "Done"
          /\ pres.out.kind = msg.kind
          /\ KindByteOnWire = ErrorKind_u8_value(msg.kind)

\* An Error frame whose kind byte was overwritten with 192.
C20_Witness ==
    /\ Parsed
    /\ CompleteErrorFrame
    /\ sent.corrupt
    /\ KindByteOnWire = 192
    /\ pres.kind = "Error"

(***************************************************************************)
(* C21.  increment_and_get_relaxed returns the new value.                  *)
(***************************************************************************)

\* C21: whatever the current value and the amount, also when their sum
\* exceeds the machine word, increment_and_get_relaxed(amount) returns a
\* number, that number is the value the counter holds right after the call,
\* and it is the old value plus the amount.
C21_ReturnsNewValue ==
    last_ret.op = "increment_and_get_relaxed" =>
        /\ last_ret.ret.kind = "ok"
        /\ last_ret.ret.val = CounterValue
        /\ last_ret.ret.val = last_ret.old + last_ret.amount

(***************************************************************************)
(* C23.  Owned and shared events.                                          *)
(***************************************************************************)

\* The same event held the other way: Owned(e) for Ref(e) and the reverse.
OtherRepr(m) == [m EXCEPT !.repr = IF m.repr = "Owned" THEN "Ref" ELSE "Owned"]

SameAnswers(a, b) ==
    /\ RecvEvent_id(a) = RecvEvent_id(b)
    /\ RecvEvent_parent_id(a) = RecvEvent_parent_id(b)
    /\ RecvEvent_timestamp(a) = RecvEvent_timestamp(b)
    /\ RecvEvent_namespace(a) = RecvEvent_namespace(b)
    /\ RecvEvent_data_len(a) = RecvEvent_data_len(b)
    /\ RecvEvent_data(a) = RecvEvent_data(b)

\* What serialize does with the message m into the buffer this session's
\* message was serialized into.
SerializedLikeThis(m) ==
    CASE sres.kind = "ok" -> serialize(m, sres.n) = sres
      [] sres.kind = "panic" -> serialize(m, sres.cap) = sres
      [] OTHER -> TRUE

\* Owned(e) and Ref(e) answer alike, convert to e and serialize alike.
Interchangeable(m) ==
    /\ SameAnswers(m, OtherRepr(m))
    /\ RecvEvent_into_owned(m) = m.event
    /\ RecvEvent_to_owned(m) = m.event
    /\ RecvEvent_into_owned(OtherRepr(m)) = m.event
    /\ RecvEvent_to_owned(OtherRepr(m)) = m.event
    /\ SerializedLikeThis(OtherRepr(m))
    /\ get_body(m) = get_body(OtherRepr(m))
    /\ get_body(m) = Some(m.event.data)

\* The header and body of the message arrived whole and were decoded.
ReceiveEventDecoded ==
    msg.type = "ReceiveEvent" /\ Parsed /\ Pristine /\ sent.body

OwnedForm(m) == [type |-> "ReceiveEvent", repr |-> "Owned", event |-> m.event]

Max(a, b) == IF a >= b THEN a ELSE b

\* The step is a call of set_if_greater by the writer (or leaves the writer
\* where such a call left it).
SetIfGreaterStep == last_ret'.op = "set_if_greater" /\ loaded' = loaded

\* C24: set_if_greater(v) leaves the counter at max(old, v): it stores v
\* when v is strictly greater than the current value and changes nothing
\* when v is less or equal; a second call with the same v changes nothing.
C24_SetIfGreaterIsMax ==
    [][SetIfGreaterStep =>
        LET v == last_ret'.amount IN
        /\ last_ret'.old = CounterValue
        /\ CounterValue' = Max(CounterValue, v)
        /\ v > CounterValue => stored' = Append(stored, v)
        /\ v <= CounterValue => stored' = stored
        /\ (last_ret.op = "set_if_greater" /\ last_ret.amount = v) =>
              stored' = stored]_vars

\* set_if_greater(v) was called on a smaller value and stored v, then was
\* called with v again.
C24_Witness ==
    /\ last_ret.op = "set_if_greater"
    /\ last_ret.amount = last_ret.old
    /\ Len(stored) = 2
    /\ stored[2] > stored[1]
    /\ stored[2] = last_ret.amount

(***************************************************************************)
(* C22.  The two outcomes of an outgoing connection.                       *)
(***************************************************************************)

ReportsOf(d) == {k \in 1..Len(failure_reports) : failure_reports[k].dial = d}

HandlersOf(d) == {k \in 1..Len(handlers) : handlers[k].dial = d}

\* The connect of dial d failed: one report, for its address; no handler.
FailedOutcome(d) ==
    /\ Cardinality(ReportsOf(d)) = 1
    /\ \A k \in ReportsOf(d) : failure_reports[k].address = dials[d].address
    /\ HandlersOf(d) = {}

\* The connect of dial d succeeded: one handler, with the id the caller got
\* back and the address dialled; no report.
ConnectedOutcome(d) ==
    /\ Cardinality(HandlersOf(d)) = 1
    /\ \A k \in HandlersOf(d) :
          /\ handlers[k].connection_id = dials[d].connection_id
          /\ handlers[k].address = dials[d].address
    /\ ReportsOf(d) = {}

\* The id in dial d is the one establish_system_connection returned.
ReturnedId(d) == Len(issued) >= d /\ issued[d].id = dials[d].connection_id

OutcomesExclusive ==
    \A d \in 1..Len(dials) :
        /\ ReturnedId(d)
        /\ dials[d].task = "spawned" => ReportsOf(d) = {} /\ HandlersOf(d) = {}
        /\ dials[d].task = "Err" => FailedOutcome(d)
        /\ dials[d].task = "Ok" => ConnectedOutcome(d)

Dialled(d) == Len(dials) >= d

Settled(d) == Dialled(d) /\ (FailedOutcome(d) \/ ConnectedOutcome(d))

\* C22: every establish_system_connection(address) ends in exactly one of
\* two ways and never in both: the connect fails, the system stream is told
\* outgoing_connection_failed(address) once and no handler is created; or
\* it succeeds, one connection handler is created with the connection id
\* returned to the caller and no failure is reported.  One of the two
\* eventually happens.
C22_OneOutcomeEventually ==
    /\ []OutcomesExclusive
    /\ \A d \in 1..MaxDials : Dialled(d) ~> Settled(d)
    /\ \A c \in Callers : (caller[c].at = "fetched") ~> (caller[c].at = "idle")

\* Two threads dialled the same address; one dial connected, the other was
\* refused.
C22_Witness ==
    /\ Len(dials) = 2
    /\ \E d, e \in 1..2 :
          /\ dials[d].task = "Ok" /\ ConnectedOutcome(d)
          /\ dials[e].task = "Err" /\ FailedOutcome(e)
          /\ dials[d].address = dials[e].address
          /\ issued[d].by # issued[e].by

(***************************************************************************)
(* C25, C26.  Lookups in the stream registry.                              *)
(***************************************************************************)

\* Thread c moves on in a call of `op`.
LookupStep(c, op) ==
    /\ lookup'[c] # lookup[c]
    /\ (lookup[c].at # "idle" /\ lookup[c].op = op)
          \/ (lookup'[c].at # "idle" /\ lookup'[c].op = op)

\* Thread c holds the mutex only between locking it and the end of the
\* scope of the guard.
LockHeldOnlyInside ==
    \A c \in Callers : registry_lock = c <=> lookup[c].at = "locked"

GetStreamAnswer ==
    last_result.op = "get_stream" =>
        IF last_result.name \in DOMAIN last_result.seen
        THEN last_result.result = Ok_stream(last_result.seen[last_result.name])
        ELSE last_result.result = Err_NoStream

\* C25: get_stream(name) returns the stream registered under exactly that
\* name when there is one and Err(NoStream) otherwise; it leaves the
\* registry as it was in both cases, and the registry lock is released when
\* the call returns, so concurrent lookups always complete.
C25_GetStream ==
    /\ []GetStreamAnswer
    /\ [][\A c \in Callers :
             LookupStep(c, "get_stream") => event_streams' = event_streams]_vars
    /\ []LockHeldOnlyInside
    /\ \A c \in Callers : (lookup[c].at # "idle") ~> (lookup[c].at = "idle")

\* With two streams registered, get_stream("beta") returned the one under
\* "beta" while the other thread was waiting for the mutex.
C25_Witness ==
    /\ last_result.op = "get_stream"
    /\ last_result.name = "beta"
    /\ DOMAIN last_result.seen = {"alpha", "beta"}
    /\ last_result.result = Ok_stream(last_result.seen["beta"])
    /\ last_result.seen = event_streams
    /\ \E c \in Callers : lookup[c].at = "waiting" /\ lookup[c].op = "get_stream"

GetDefaultStreamAnswer ==
    last_result.op = "get_default_stream" =>
        /\ last_result.result = SystemEventStream <=> DOMAIN last_result.seen = {}
        /\ DOMAIN last_result.seen # {} =>
              last_result.result \in Values(last_result.seen)

\* C26: get_default_stream returns the system stream if and only if the
\* registry is empty when it looks; with at least one stream registered it
\* returns one of the registered streams; it never changes the registry.
C26_GetDefaultStream ==
    /\ []GetDefaultStreamAnswer
    /\ [][\A c \in Callers :
             LookupStep(c, "get_default_stream") =>
                 event_streams' = event_streams]_vars

\* With two streams registered, get_default_stream returned the second.
C26_Witness ==
    /\ last_result.op = "get_default_stream"
    /\ DOMAIN last_result.seen = {"alpha", "beta"}
    /\ last_result.result = last_result.seen["beta"]
    /\ last_result.result # SystemEventStream

====
